---- MODULE Spec2Model ----
(***************************************************************************)
(* Conservative (area-weighted) regridding of a gridded variable onto      *)
(* region polygons, as done by dataset_access/conus404_temporal_           *)
(* aggregation.ipynb: regions and grid cells are polygons, the overlay of  *)
(* the two gives fragments, fragment areas give weights, the weights are   *)
(* unstacked into a sparse (y, x, name) array and applied to the data by a *)
(* reshape + sparse matmul.                                                *)
(*                                                                         *)
(* Numbers: floating point values are modelled as exact rationals         *)
(* <<numerator, denominator>> (denominator > 0), so "equal" below means    *)
(* equal as rationals.  Geometry: polygons are rings of integer vertices;  *)
(* region polygons and grid cells are axis-parallel rectangles.            *)
(***************************************************************************)
EXTENDS Integers, Sequences, FiniteSets, TLC

VARIABLES
    pc,                 \* the notebook cell the pipeline run has reached
    regions_df,         \* GeoDataFrame of regions: [crs, rows: Seq([name, geometry])]
    ds,                 \* gridded dataset coordinates: [x: Seq(centre), y: Seq(centre)]
    grid_df,            \* GeoDataFrame of grid cells: [crs, rows: Seq([y, x, geometry])]
    overlay,            \* Seq([y, x, name, geometry]): the overlay fragments
    grid_cell_fraction, \* Seq(rational), aligned with overlay
    df_weights,         \* Seq([index: <<y, x, name>>, weights: rational])
    weights_sparse,     \* [coords: [y, x, name], data: COO array of shape (ny, nx, nm)]
    var_data,           \* the values of ds[var] read at compute time: [n, values]
    var_regridded,      \* [name: Seq(name), data: dense (n, m) array]
    weights_arg,        \* apply_weights_matmul_sparse called on its own: argument weights
    data_arg,           \*   argument data
    regridded,          \*   its outcome: a dense array or [error |-> "AssertionError"]
    x_bounds_arg,       \* bounds_to_poly called on its own: argument x_bounds
    y_bounds_arg,       \*   argument y_bounds
    poly,               \*   its outcome: a Polygon or [error |-> "IndexError"]
    chunks,             \* the chunks of ds[var] along time: Seq(<<first, last>>)
    heap,               \* the arrays in memory: object reference -> array
    tasks,              \* one apply_weights_matmul_sparse call per chunk: its frame
    reruns,             \* how many times cells of the notebook have been run again
    notebook,           \* the notebook whose first cells run: "explore", "temporal", "spatial"
    environ,            \* os.environ: variable name -> value, for the variables defined
    dataset,            \* the notebook's variable dataset, "unbound" before it is assigned
    machine,            \* the notebook's variable machine
    cluster,            \* the notebook's variable cluster: the kind of cluster it holds
    client,             \* the notebook's variable client: the cluster it is connected to
    started,            \* the clusters started so far and still running: Seq(kind)
    opened,             \* the catalog entry ds was opened from
    myList,             \* the list the bag is filled with
    nthreads,           \* the worker threads of the cluster
    myBag,              \* db.from_sequence(myList): the partitions, Seq(Seq(element))
    running,            \* worker thread -> the partition whose task it runs, 0 when idle
    results,            \* partition -> the list its task returned, <<>> while it has not
    finished,           \* the partitions in the order their tasks ended
    calls,              \* position in myList -> calls of myFunc on that element so far
    computes,           \* the number of result.compute() calls started
    computed,           \* what the last result.compute() returned
    awsconfig,          \* the parsed ~/.aws/credentials: profile -> option -> value
    log,                \* the messages logging.error has written, in order
    smplData,           \* the sample dataset: variable name -> [dims, shape, data]
    outfile,            \* the output zarr store: variable name -> [chunks, blocks]
    todo,               \* the chunk copies result.execute still has to run
    attempts,           \* the task attempts that failed and were retried
    reChunkedData,      \* xr.open_zarr(outfile): variable name -> [dims, shape, data]
    ds_subset,          \* the two variables of ds over the days of the slice: [time, T2, U10]
    ds_subset_daily,    \* the resampled means: [time, T2, U10]
    data_vars,          \* ds.data_vars of the explorer app, in order: Seq([name, dims, bounds_of])
    visited,            \* the variables the loop over ds.data_vars has been through
    time_vars           \* the names the loop has appended

vars == <<pc, regions_df, ds, grid_df, overlay, grid_cell_fraction, df_weights,
          weights_sparse, var_data, var_regridded, weights_arg, data_arg, regridded,
          x_bounds_arg, y_bounds_arg, poly, chunks, heap, tasks,
          reruns, notebook, environ, dataset, machine, cluster, client, started, opened,
          myList, nthreads, myBag, running, results, finished, calls, computes, computed,
          awsconfig, log,
          smplData, outfile, todo, attempts, reChunkedData,
          ds_subset, ds_subset_daily,
          data_vars, visited, time_vars>>

pipeline_vars == <<pc, regions_df, ds, grid_df, overlay, grid_cell_fraction, df_weights,
                   weights_sparse, var_data, var_regridded>>

call_vars == <<weights_arg, data_arg, regridded>>

poly_vars == <<x_bounds_arg, y_bounds_arg, poly>>

\* the tables of the pipeline, without the position of the run
table_vars == <<regions_df, ds, grid_df, overlay, grid_cell_fraction, df_weights,
                weights_sparse, var_data, var_regridded>>

\* everything but the pipeline and the regridder call
task_vars == <<chunks, heap, tasks>>

env_vars == <<notebook, environ, dataset, machine, cluster, client, started, opened>>

bag_vars == <<myList, nthreads, myBag, running, results, finished, calls, computes, computed>>

helper_vars == <<awsconfig, log>>

rechunk_vars == <<smplData, outfile, todo, attempts, reChunkedData>>

daily_vars == <<ds_subset, ds_subset_daily>>

explorer_vars == <<data_vars, visited, time_vars>>

other_vars == <<poly_vars, task_vars, reruns, env_vars, bag_vars, helper_vars, rechunk_vars, daily_vars, explorer_vars>>

(***************************************************************************)
(* Bounds of the model.                                                    *)
(***************************************************************************)
\* region corners range over x offsets 0..MaxCoord (the grid spans 0..4)
MaxCoord == 5
\* data values range over 0..MaxVal
MaxVal == 1
\* number of time steps of the data (1..MaxTime in a direct call of the regridder)
MaxTime == 2
\* the uniform value of the end-to-end scenario ranges over 0..MaxUniform
MaxUniform == 50
\* seeds of the arrays apply_weights_matmul_sparse is called on directly
MaxSeed == 1
\* each dimension of those arrays ranges over 1..MaxDim
MaxDim == 2

(***************************************************************************)
(* Small helpers.                                                          *)
(***************************************************************************)
Min(S) == CHOOSE m \in S : \A s \in S : m <= s

Max(S) == CHOOSE m \in S : \A s \in S : m >= s

Abs(n) == IF n < 0 THEN -n ELSE n

Range(s) == {s[i] : i \in 1..Len(s)}

RECURSIVE SetToSortedSeq(_)
SetToSortedSeq(S) ==
    IF S = {} THEN <<>>
    ELSE LET m == Min(S) IN <<m>> \o SetToSortedSeq(S \ {m})

RECURSIVE SumSeq(_)
SumSeq(s) == IF s = <<>> THEN 0 ELSE Head(s) + SumSeq(Tail(s))

\* position of v in sequence s (v occurs in s)
IndexOf(s, v) == CHOOSE i \in 1..Len(s) : s[i] = v

(***************************************************************************)
(* Rationals standing for the floats of the program.                       *)
(***************************************************************************)
Rat(n, d) == <<n, d>>

RZero == Rat(0, 1)

RAdd(a, b) == IF a[2] = b[2] THEN Rat(a[1] + b[1], a[2])
              ELSE Rat(a[1] * b[2] + b[1] * a[2], a[2] * b[2])

RMul(a, b) == Rat(a[1] * b[1], a[2] * b[2])

REq(a, b) == a[1] * b[2] = b[1] * a[2]

RIsZero(a) == a[1] = 0

RECURSIVE RSumSeq(_)
RSumSeq(s) == IF s = <<>> THEN RZero ELSE RAdd(Head(s), RSumSeq(Tail(s)))

(***************************************************************************)
(* Coordinate reference systems.  Three occur: the regions' original CRS   *)
(* ("orig"), the grid's Lambert conformal CRS ("lcc") and the area         *)
(* preserving CRS "EPSG:6931".  A projection is modelled as an injective   *)
(* affine change of coordinates that keeps axis-parallel rectangles.       *)
(***************************************************************************)
crs_orig == "orig"

lcc_wkt == "lcc"

crs_area == "EPSG:6931"

\* coordinates of a point of CRS c in the grid's CRS
ToLcc(c, p) ==
    CASE c = crs_orig -> <<p[1] - 10, p[2] - 20>>
      [] c = lcc_wkt  -> p
      [] c = crs_area -> <<(p[1] - 1) \div 2, (p[2] - 2) \div 3>>

FromLcc(c, p) ==
    CASE c = crs_orig -> <<p[1] + 10, p[2] + 20>>
      [] c = lcc_wkt  -> p
      [] c = crs_area -> <<2 * p[1] + 1, 3 * p[2] + 2>>

\* GeoDataFrame.to_crs on one geometry: every vertex is reprojected
GeomToCrs(geom, from, to) == [i \in 1..Len(geom) |-> FromLcc(to, ToLcc(from, geom[i]))]

(***************************************************************************)
(* Geometry (shapely).                                                     *)
(***************************************************************************)
IndexError == [error |-> "IndexError"]

\* shapely's Polygon(points): the points are the exterior ring, as given
Polygon(points) == [type |-> "Polygon", exterior |-> points]

\* mutant of bounds_to_poly: the two axes are exchanged
bounds_to_poly_transposed(x_bounds, y_bounds) ==
    IF Len(x_bounds) < 2 \/ Len(y_bounds) < 2
    THEN IndexError
    ELSE Polygon(<< <<y_bounds[1], x_bounds[1]>>,
                    <<y_bounds[1], x_bounds[2]>>,
                    <<y_bounds[2], x_bounds[2]>>,
                    <<y_bounds[2], x_bounds[1]>> >>)

\* Polygon([(x_bounds[0], y_bounds[0]), (x_bounds[0], y_bounds[1]),
\*          (x_bounds[1], y_bounds[1]), (x_bounds[1], y_bounds[0])]):
\* indexing an array at a position it does not have raises IndexError; the function
\* reads positions 0 and 1 only, and Polygon takes any four points as its ring
bounds_to_poly(x_bounds, y_bounds) ==
    IF Len(x_bounds) < 2 \/ Len(y_bounds) < 2
    THEN IndexError
    ELSE Polygon(<< <<x_bounds[1], y_bounds[1]>>,
                    <<x_bounds[1], y_bounds[2]>>,
                    <<x_bounds[2], y_bounds[2]>>,
                    <<x_bounds[2], y_bounds[1]>> >>)

\* a rectangle given by its (lower, upper) extent along x and along y
Box(x_extent, y_extent) ==
    << <<x_extent[1], y_extent[1]>>,
       <<x_extent[1], y_extent[2]>>,
       <<x_extent[2], y_extent[2]>>,
       <<x_extent[2], y_extent[1]>> >>

MinX(g) == Min({g[i][1] : i \in 1..Len(g)})

MaxX(g) == Max({g[i][1] : i \in 1..Len(g)})

MinY(g) == Min({g[i][2] : i \in 1..Len(g)})

MaxY(g) == Max({g[i][2] : i \in 1..Len(g)})

\* geometry.area of a ring: the shoelace formula
Area(g) ==
    LET n == Len(g)
        nxt(i) == IF i = n THEN 1 ELSE i + 1
        twice == SumSeq([i \in 1..n |-> g[i][1] * g[nxt(i)][2] - g[nxt(i)][1] * g[i][2]])
    IN Abs(twice) \div 2

\* the intersection of two rectangles: a polygon, or a degenerate result where they
\* only touch (a line along a shared edge, a point at a shared corner), or nothing
Intersection(p, q) ==
    LET xl == Max({MinX(p), MinX(q)})
        xu == Min({MaxX(p), MaxX(q)})
        yl == Max({MinY(p), MinY(q)})
        yu == Min({MaxY(p), MaxY(q)})
    IN IF xl > xu \/ yl > yu THEN [type |-> "Empty", geometry |-> <<>>]
       ELSE IF xl = xu /\ yl = yu THEN [type |-> "Point", geometry |-> << <<xl, yl>> >>]
       ELSE IF xl = xu \/ yl = yu
            THEN [type |-> "LineString", geometry |-> << <<xl, yl>>, <<xu, yu>> >>]
       ELSE [type |-> "Polygon",
             geometry |-> Box(<<xl, xu>>, <<yl, yu>>)]

(***************************************************************************)
(* Arrays.  A numpy array is its shape and its buffer in C (row-major)     *)
(* order; a sparse COO array is its shape and its stored (nonzero)         *)
(* entries, indexed by 1-based coordinate tuples, every other entry being  *)
(* the fill value 0.                                                       *)
(***************************************************************************)
RECURSIVE Size(_)
Size(shape) == IF shape = <<>> THEN 1 ELSE Head(shape) * Size(Tail(shape))

\* C-order linear offset (0-based) of the 1-based index tuple idx
RECURSIVE Ravel(_, _)
Ravel(idx, shape) ==
    IF idx = <<>> THEN 0
    ELSE LET n == Len(idx)
         IN Ravel(SubSeq(idx, 1, n - 1), SubSeq(shape, 1, n - 1)) * shape[n] + (idx[n] - 1)

\* the 1-based index tuple of C-order linear offset lin
RECURSIVE Unravel(_, _)
Unravel(lin, shape) ==
    IF shape = <<>> THEN <<>>
    ELSE LET n == Len(shape)
         IN Append(Unravel(lin \div shape[n], SubSeq(shape, 1, n - 1)), (lin % shape[n]) + 1)

Indices(shape) == {Unravel(k - 1, shape) : k \in 1..Size(shape)}

NdArray(shape, flat) == [kind |-> "ndarray", shape |-> shape, flat |-> flat]

Coo(shape, nz) == [kind |-> "COO", shape |-> shape, nz |-> nz]

\* a[idx] of a numpy array
At(a, idx) == a.flat[Ravel(idx, a.shape) + 1]

\* a[idx] of a sparse array
CooAt(a, idx) == IF idx \in DOMAIN a.nz THEN a.nz[idx] ELSE RZero

\* sparse.COO.from_numpy: only the nonzero entries are stored
CooFromNumpy(a) ==
    Coo(a.shape, [idx \in {i \in Indices(a.shape) : ~RIsZero(At(a, i))} |-> At(a, idx)])

\* where the entry at idx of an array of shape `shape` lies after reshape(newshape)
ReshapeIndex(idx, shape, newshape) == Unravel(Ravel(idx, shape), newshape)

\* COO.reshape: same entries, same C-order position, new shape
CooReshape(a, newshape) ==
    LET moved == {<<idx, ReshapeIndex(idx, a.shape, newshape)>> : idx \in DOMAIN a.nz}
    IN Coo(newshape,
           [new \in {m[2] : m \in moved} |->
               a.nz[(CHOOSE m \in moved : m[2] = new)[1]]])

\* sparse.matmul of a (n, k) by a (k, m) array
CooMatmul(a, b) ==
    LET n == a.shape[1]
        m == b.shape[2]
        common(t, r) == {q \in 1..a.shape[2] : <<t, q>> \in DOMAIN a.nz /\ <<q, r>> \in DOMAIN b.nz}
        term(t, r) == LET qs == SetToSortedSeq(common(t, r))
                      IN RSumSeq([i \in 1..Len(qs) |-> RMul(a.nz[<<t, qs[i]>>], b.nz[<<qs[i], r>>])])
    IN Coo(<<n, m>>,
           [idx \in {i \in (1..n) \X (1..m) : common(i[1], i[2]) # {}} |-> term(idx[1], idx[2])])

\* COO.todense
Todense(a) ==
    NdArray(a.shape, [k \in 1..Size(a.shape) |-> CooAt(a, Unravel(k - 1, a.shape))])

AssertionError == [error |-> "AssertionError"]

IsError(r) == "error" \in DOMAIN r

\* mutant of apply_weights_matmul_sparse: the weights are flattened with their two
\* grid axes in the other order, as a (x, y, name) array would be
apply_weights_matmul_sparse_swapped(weights, data) ==
    LET data_coo == CooFromNumpy(data)
        n == data_coo.shape[1]
        k == data_coo.shape[2] * data_coo.shape[3]
        data2 == CooReshape(data_coo, <<n, k>>)
        k_ == weights.shape[1] * weights.shape[2]
        m == weights.shape[3]
        swapped == Coo(<<weights.shape[2], weights.shape[1], m>>,
                       [idx \in {<<i[2], i[1], i[3]>> : i \in DOMAIN weights.nz} |->
                          weights.nz[<<idx[2], idx[1], idx[3]>>]])
    IN IF k # k_ THEN AssertionError
       ELSE Todense(CooMatmul(data2, CooReshape(swapped, <<k, m>>)))

\* mutant of apply_weights_matmul_sparse: the assertion k == k_ is not made
apply_weights_matmul_sparse_unasserted(weights, data) ==
    LET data_coo == CooFromNumpy(data)
        n == data_coo.shape[1]
        k == data_coo.shape[2] * data_coo.shape[3]
        m == weights.shape[3]
    IN Todense(CooMatmul(CooReshape(data_coo, <<n, k>>), CooReshape(weights, <<k, m>>)))

apply_weights_matmul_sparse(weights, data) ==
    IF weights.kind # "COO" THEN AssertionError
    ELSE IF data.kind # "ndarray" THEN AssertionError
    ELSE LET data_coo == CooFromNumpy(data)
             data_shape == data_coo.shape
             n == data_shape[1]
             k == data_shape[2] * data_shape[3]
             data2 == CooReshape(data_coo, <<n, k>>)
             weights_shape == weights.shape
             k_ == weights_shape[1] * weights_shape[2]
             m == weights_shape[3]
         IN IF k # k_ THEN AssertionError
            ELSE LET weights_data == CooReshape(weights, <<k, m>>)
                     result == CooMatmul(data2, weights_data)
                 IN IF result.shape # <<n, m>> THEN AssertionError
                    ELSE Todense(result)

(***************************************************************************)
(* The inputs of a pipeline run.                                           *)
(***************************************************************************)
\* the region names, in the (lexicographic) order pandas sorts them
AllNames == <<"left", "right">>

NameRank(name) == IndexOf(AllNames, name)

\* the gridded dataset as opened: cell centres along x and y, in the grid's CRS
DsCoords == [x |-> <<1, 3>>, y |-> <<1, 3>>]

\* y offsets of region corners
RegionYs == {0, 2, 3, 4}

\* the region rectangles offered as input, in the regions' original CRS
RegionBoxes ==
    {Box(<<FromLcc(crs_orig, <<x0, y0>>)[1], FromLcc(crs_orig, <<x1, y1>>)[1]>>,
                    <<FromLcc(crs_orig, <<x0, y0>>)[2], FromLcc(crs_orig, <<x1, y1>>)[2]>>) :
        <<x0, x1, y0, y1>> \in {b \in (0..MaxCoord) \X (0..MaxCoord) \X RegionYs \X RegionYs :
                                  b[1] < b[2] /\ b[3] < b[4]}}

\* region tables of one or two rows whose names are unique (the rows of a two-row
\* table are not in sorted name order)
RegionTables ==
    {<<[name |-> nm, geometry |-> g]>> : nm \in Range(AllNames), g \in RegionBoxes}
    \cup {<<[name |-> AllNames[2], geometry |-> g1], [name |-> AllNames[1], geometry |-> g2]>> :
            g1 \in RegionBoxes, g2 \in RegionBoxes}

None == [none |-> TRUE]

(***************************************************************************)
(* The pipeline's steps as functions of the tables.                        *)
(***************************************************************************)
\* GeoDataFrame.to_crs
to_crs(df, crs) ==
    [crs |-> crs,
     rows |-> [i \in 1..Len(df.rows) |->
                 [df.rows[i] EXCEPT !.geometry = GeomToCrs(df.rows[i].geometry, df.crs, crs)]]]

\* GeoDataFrame.total_bounds: (minx, miny, maxx, maxy) over all rows
total_bounds(df) ==
    <<Min({MinX(df.rows[i].geometry) : i \in 1..Len(df.rows)}),
      Min({MinY(df.rows[i].geometry) : i \in 1..Len(df.rows)}),
      Max({MaxX(df.rows[i].geometry) : i \in 1..Len(df.rows)}),
      Max({MaxY(df.rows[i].geometry) : i \in 1..Len(df.rows)})>>

\* coordinate.sel(slice(lo, hi)): the labels within [lo, hi], in order
SelSlice(coord, lo, hi) == SelectSeq(coord, LAMBDA c : lo <= c /\ c <= hi)

\* mutant of add_bounds: the bounds lie a whole spacing from the centre, not half
add_bounds_wide(coord, i) ==
    LET d == IF i = 1 THEN coord[2] - coord[1] ELSE coord[i] - coord[i - 1]
    IN <<coord[i] - d, coord[i] + d>>

\* cf.add_bounds on one axis: bounds guessed from the spacing of the centres
add_bounds(coord, i) ==
    LET d == IF i = 1 THEN coord[2] - coord[1] ELSE coord[i] - coord[i - 1]
    IN <<coord[i] - d \div 2, coord[i] + d \div 2>>

\* grid.stack(point=(y, x)): the cells in y-major order
StackPoints(grid) ==
    [k \in 1..(Len(grid.y) * Len(grid.x)) |->
        <<((k - 1) \div Len(grid.x)) + 1, ((k - 1) % Len(grid.x)) + 1>>]

\* boxes / grid_df: one polygon per stacked point, labelled by the cell's centre
GridPolygons(grid) ==
    LET points == StackPoints(grid)
    IN [crs |-> lcc_wkt,
        rows |-> [k \in 1..Len(points) |->
                    [y |-> grid.y[points[k][1]],
                     x |-> grid.x[points[k][2]],
                     geometry |-> bounds_to_poly(add_bounds(grid.x, points[k][2]),
                                                 add_bounds(grid.y, points[k][1])).exterior]]]

\* mutant of Overlay: every grid cell is matched with one region only (the first)
OverlayFirstMatch(gdf, rdf) ==
    LET nr == Len(rdf.rows)
        inter(c, r) == Intersection(gdf.rows[c].geometry, rdf.rows[r].geometry)
        hits(c) == {r \in 1..nr : inter(c, r).type = "Polygon"}
        kept == SelectSeq([c \in 1..Len(gdf.rows) |-> c], LAMBDA c : hits(c) # {})
    IN [k \in 1..Len(kept) |->
          [y |-> gdf.rows[kept[k]].y,
           x |-> gdf.rows[kept[k]].x,
           name |-> rdf.rows[Min(hits(kept[k]))].name,
           geometry |-> inter(kept[k], Min(hits(kept[k]))).geometry]]

\* mutant of Overlay: keep_geom_type=False, so results of any geometry type are kept
OverlayAnyGeomType(gdf, rdf) ==
    LET nr == Len(rdf.rows)
        pairs == [k \in 1..(Len(gdf.rows) * nr) |-> <<((k - 1) \div nr) + 1, ((k - 1) % nr) + 1>>]
        inter(pr) == Intersection(gdf.rows[pr[1]].geometry, rdf.rows[pr[2]].geometry)
        kept == SelectSeq(pairs, LAMBDA pr : inter(pr).type # "Empty")
    IN [k \in 1..Len(kept) |->
          [y |-> gdf.rows[kept[k][1]].y,
           x |-> gdf.rows[kept[k][1]].x,
           name |-> rdf.rows[kept[k][2]].name,
           geometry |-> inter(kept[k]).geometry]]

\* grid_df.overlay(regions_df, keep_geom_type=True) (how="intersection"): the pairs
\* of rows that intersect, each with the intersection as geometry; results that are
\* not polygons (the pair only touches) are dropped
Overlay(gdf, rdf) ==
    LET nr == Len(rdf.rows)
        pairs == [k \in 1..(Len(gdf.rows) * nr) |-> <<((k - 1) \div nr) + 1, ((k - 1) % nr) + 1>>]
        inter(pr) == Intersection(gdf.rows[pr[1]].geometry, rdf.rows[pr[2]].geometry)
        kept == SelectSeq(pairs, LAMBDA pr : inter(pr).type = "Polygon")
    IN [k \in 1..Len(kept) |->
          [y |-> gdf.rows[kept[k][1]].y,
           x |-> gdf.rows[kept[k][1]].x,
           name |-> rdf.rows[kept[k][2]].name,
           geometry |-> inter(kept[k]).geometry]]

\* mutant of GridCellFraction: the areas are not divided
GridCellFractionUnnormalised(ov) == [i \in 1..Len(ov) |-> Rat(Area(ov[i].geometry), 1)]

\* mutant of GridCellFraction: no groupby, every area is divided by the sum of all areas
GridCellFractionUngrouped(ov) ==
    LET total == SumSeq([j \in 1..Len(ov) |-> Area(ov[j].geometry)])
    IN [i \in 1..Len(ov) |-> Rat(Area(ov[i].geometry), total)]

\* mutant of GridCellFraction: once values of the variable are in memory, the area of
\* a fragment is weighted by the value of its cell
GridCellFractionByValue(ov) ==
    LET value(i) == IF "flat" \in DOMAIN var_data
                    THEN At(var_data, <<1, IndexOf(ds.y, ov[i].y), IndexOf(ds.x, ov[i].x)>>)[1] + 1
                    ELSE 1
        group_sum(name) ==
            SumSeq([j \in 1..Len(ov) |->
                      IF ov[j].name = name THEN Area(ov[j].geometry) * value(j) ELSE 0])
    IN [i \in 1..Len(ov) |-> Rat(Area(ov[i].geometry) * value(i), group_sum(ov[i].name))]

\* overlay.geometry.area.groupby(overlay[region_name]).transform(lambda x: x / x.sum())
GridCellFraction(ov) ==
    LET group_sum(name) ==
            SumSeq([j \in 1..Len(ov) |-> IF ov[j].name = name THEN Area(ov[j].geometry) ELSE 0])
    IN [i \in 1..Len(ov) |-> Rat(Area(ov[i].geometry), group_sum(ov[i].name))]

\* mutant of DfWeights: the fractions are attached to the index in the wrong row order
DfWeightsMisaligned(ov, fraction) ==
    [i \in 1..Len(ov) |-> [index |-> <<ov[i].y, ov[i].x, ov[i].name>>,
                           weights |-> fraction[Len(ov) + 1 - i]]]

\* mutant of DfWeights: the rows are appended to the table of an earlier build
DfWeightsAppended(ov, fraction) ==
    LET rows == [i \in 1..Len(ov) |->
                   [index |-> <<ov[i].y, ov[i].x, ov[i].name>>, weights |-> fraction[i]]]
    IN IF pc = "weights" THEN df_weights \o rows ELSE rows

\* multi_index / df_weights: one row per overlay row, indexed by (y, x, name)
DfWeights(ov, fraction) ==
    [i \in 1..Len(ov) |-> [index |-> <<ov[i].y, ov[i].x, ov[i].name>>, weights |-> fraction[i]]]

\* the sorted names occurring in a set of names
SortedNames(names) ==
    LET ranks == SetToSortedSeq({NameRank(nm) : nm \in names})
    IN [i \in 1..Len(ranks) |-> AllNames[ranks[i]]]

\* xr.Dataset(df_weights).unstack(sparse=True, fill_value=0.).weights: the index
\* levels (sorted unique labels) become the coordinates; every row is stored at the
\* position of its labels
Unstack(dfw) ==
    LET ys == SetToSortedSeq({dfw[i].index[1] : i \in 1..Len(dfw)})
        xs == SetToSortedSeq({dfw[i].index[2] : i \in 1..Len(dfw)})
        nms == SortedNames({dfw[i].index[3] : i \in 1..Len(dfw)})
        pos(i) == <<IndexOf(ys, dfw[i].index[1]), IndexOf(xs, dfw[i].index[2]),
                    IndexOf(nms, dfw[i].index[3])>>
    IN [coords |-> [y |-> ys, x |-> xs, name |-> nms],
        data |-> Coo(<<Len(ys), Len(xs), Len(nms)>>,
                     [idx \in {pos(i) : i \in 1..Len(dfw)} |->
                        dfw[CHOOSE i \in 1..Len(dfw) : pos(i) = idx].weights])]

\* unstack refuses an index in which a (y, x, name) triple occurs twice
HasDuplicateIndex(dfw) ==
    \E i, j \in 1..Len(dfw) : i # j /\ dfw[i].index = dfw[j].index

\* join="left" of xr.apply_ufunc: the data is reindexed to the y and x labels of
\* the first argument (the weights)
AlignLeft(weights, grid, data) ==
    LET n == data.shape[1]
        shape == <<n, Len(weights.coords.y), Len(weights.coords.x)>>
    IN NdArray(shape,
               [k \in 1..Size(shape) |->
                  LET idx == Unravel(k - 1, shape)
                  IN At(data, <<idx[1], IndexOf(grid.y, weights.coords.y[idx[2]]),
                                IndexOf(grid.x, weights.coords.x[idx[3]])>>)])

\* xr.apply_ufunc(apply_weights_matmul_sparse, weights_sparse, ds[var], join="left",
\* input_core_dims=[[y, x, name], [y, x]], output_core_dims=[[name]])
VarRegridded(weights, grid, data) ==
    LET out == apply_weights_matmul_sparse(weights.data, AlignLeft(weights, grid, data))
    IN IF IsError(out) THEN out ELSE [name |-> weights.coords.name, data |-> out]

(***************************************************************************)
(* The pipeline run: one action per notebook step.                         *)
(***************************************************************************)
\* the values ds[var] may hold on a (time, y, x) grid: uniform, or all different
DataSets(shape) ==
    {NdArray(shape, [k \in 1..Size(shape) |-> Rat(v, 1)]) : v \in 0..MaxVal}
    \cup {NdArray(shape, [k \in 1..Size(shape) |-> Rat(k, 1)])}

UniformDataSets(shape) ==
    {NdArray(shape, [k \in 1..Size(shape) |-> Rat(v, 1)]) : v \in 0..MaxUniform}

InitPipeline(tables, coords) ==
    /\ pc = "load"
    /\ regions_df \in {[crs |-> crs_orig, rows |-> t] : t \in tables}
    /\ ds = coords
    /\ grid_df = None
    /\ overlay = None
    /\ grid_cell_fraction = None
    /\ df_weights = None
    /\ weights_sparse = None
    /\ var_data = None
    /\ var_regridded = None

NoCall ==
    /\ weights_arg = None
    /\ data_arg = None
    /\ regridded = None

NoPoly ==
    /\ x_bounds_arg = None
    /\ y_bounds_arg = None
    /\ poly = None

NoTasks ==
    /\ chunks = None
    /\ heap = None
    /\ tasks = None

NoRerun == reruns = None

NoEnv ==
    /\ notebook = None
    /\ environ = None
    /\ dataset = None
    /\ machine = None
    /\ cluster = None
    /\ client = None
    /\ started = None
    /\ opened = None

NoBag ==
    /\ myList = None
    /\ nthreads = None
    /\ myBag = None
    /\ running = None
    /\ results = None
    /\ finished = None
    /\ calls = None
    /\ computes = None
    /\ computed = None

NoHelper ==
    /\ awsconfig = None
    /\ log = None

NoRechunk ==
    /\ smplData = None
    /\ outfile = None
    /\ todo = None
    /\ attempts = None
    /\ reChunkedData = None

NoDaily ==
    /\ ds_subset = None
    /\ ds_subset_daily = None

NoExplorer ==
    /\ data_vars = None
    /\ visited = None
    /\ time_vars = None

NoOther == NoPoly /\ NoTasks /\ NoRerun /\ NoEnv /\ NoBag /\ NoHelper /\ NoRechunk /\ NoDaily /\ NoExplorer

Init == InitPipeline(RegionTables, DsCoords) /\ NoCall /\ NoOther

\* regions_df = regions_df.to_crs(lcc_wkt)
RegionsToGridCrs ==
    /\ pc = "load"
    /\ regions_df' = to_crs(regions_df, lcc_wkt)
    /\ pc' = "lcc"
    /\ UNCHANGED <<ds, grid_df, overlay, grid_cell_fraction, df_weights, weights_sparse,
                   var_data, var_regridded, call_vars, other_vars>>

\* bbox = tuple(regions_df.total_bounds); ds = ds.sel(x=slice(...), y=slice(...))
SubsetToBbox ==
    /\ pc = "lcc"
    /\ LET bbox == total_bounds(regions_df)
       IN ds' = [x |-> SelSlice(ds.x, bbox[1], bbox[3]), y |-> SelSlice(ds.y, bbox[2], bbox[4])]
    /\ pc' = "subset"
    /\ UNCHANGED <<regions_df, grid_df, overlay, grid_cell_fraction, df_weights,
                   weights_sparse, var_data, var_regridded, call_vars, other_vars>>

\* grid, add_bounds, stack, bounds_to_poly over every point, grid_df; the bounds of
\* an axis with fewer than two centres cannot be guessed and add_bounds raises
BuildGridPolygons ==
    /\ pc = "subset"
    /\ IF Len(ds.x) < 2 \/ Len(ds.y) < 2
       THEN pc' = "error_bounds" /\ UNCHANGED grid_df
       ELSE pc' = "grid" /\ grid_df' = GridPolygons(ds)
    /\ UNCHANGED <<regions_df, ds, overlay, grid_cell_fraction, df_weights, weights_sparse,
                   var_data, var_regridded, call_vars, other_vars>>

\* mutant of ToAreaCrs: the grid polygons are not reprojected
ToAreaCrsRegionsOnly ==
    /\ pc = "grid"
    /\ regions_df' = to_crs(regions_df, crs_area)
    /\ pc' = "area"
    /\ UNCHANGED <<ds, grid_df, overlay, grid_cell_fraction, df_weights, weights_sparse,
                   var_data, var_regridded, call_vars, other_vars>>

\* regions_df = regions_df.to_crs(crs_area); grid_df = grid_df.to_crs(crs_area)
ToAreaCrs ==
    /\ pc = "grid"
    /\ regions_df' = to_crs(regions_df, crs_area)
    /\ grid_df' = to_crs(grid_df, crs_area)
    /\ pc' = "area"
    /\ UNCHANGED <<ds, overlay, grid_cell_fraction, df_weights, weights_sparse, var_data,
                   var_regridded, call_vars, other_vars>>

\* overlay = grid_df.overlay(regions_df, keep_geom_type=True)
ComputeOverlay ==
    /\ pc = "area"
    /\ overlay' = Overlay(grid_df, regions_df)
    /\ pc' = "overlay"
    /\ UNCHANGED <<regions_df, ds, grid_df, grid_cell_fraction, df_weights, weights_sparse,
                   var_data, var_regridded, call_vars, other_vars>>

\* grid_cell_fraction = ...groupby(overlay[region_name]).transform(lambda x: x / x.sum())
AreaFraction ==
    /\ pc = "overlay"
    /\ grid_cell_fraction' = GridCellFraction(overlay)
    /\ pc' = "fraction"
    /\ UNCHANGED <<regions_df, ds, grid_df, overlay, df_weights, weights_sparse, var_data,
                   var_regridded, call_vars, other_vars>>

\* multi_index, df_weights, ds_weights, weights_sparse
BuildWeights ==
    /\ pc = "fraction"
    /\ df_weights' = DfWeights(overlay, grid_cell_fraction)
    /\ IF HasDuplicateIndex(df_weights')
       THEN pc' = "error_unstack" /\ UNCHANGED weights_sparse
       ELSE pc' = "weights" /\ weights_sparse' = Unstack(df_weights')
    /\ UNCHANGED <<regions_df, ds, grid_df, overlay, grid_cell_fraction, var_data,
                   var_regridded, call_vars, other_vars>>

\* var_regridded = xr.apply_ufunc(apply_weights_matmul_sparse, weights_sparse, ds[var], ...)
\* followed by .compute(), which reads the values of ds[var]
Regrid(uniform) ==
    /\ pc = "weights"
    /\ var_data' \in IF uniform THEN UniformDataSets(<<MaxTime, Len(ds.y), Len(ds.x)>>)
                              ELSE DataSets(<<MaxTime, Len(ds.y), Len(ds.x)>>)
    /\ var_regridded' = VarRegridded(weights_sparse, ds, var_data')
    /\ pc' = IF IsError(var_regridded') THEN "error_regrid" ELSE "done"
    /\ UNCHANGED <<regions_df, ds, grid_df, overlay, grid_cell_fraction, df_weights,
                   weights_sparse, call_vars, other_vars>>

RegridAny == Regrid(FALSE)

RegridUniform == Regrid(TRUE)

Next ==
    \/ RegionsToGridCrs
    \/ SubsetToBbox
    \/ BuildGridPolygons
    \/ ToAreaCrs
    \/ ComputeOverlay
    \/ AreaFraction
    \/ BuildWeights
    \/ RegridAny

Spec == Init /\ [][Next]_vars

(***************************************************************************)
(* The notebook's cells run again: the Weight Builder's cells on the       *)
(* overlay at hand, or the whole regridding section from the choice of the *)
(* variable on.  A cell run again overwrites what it assigned before.      *)
(***************************************************************************)
\* the most re-runs tried
MaxReruns == 2

\* grid_cell_fraction, multi_index, df_weights, ds_weights and weights_sparse computed
\* again from the overlay at hand
RebuildWeights ==
    /\ pc = "weights"
    /\ reruns < MaxReruns
    /\ reruns' = reruns + 1
    /\ grid_cell_fraction' = GridCellFraction(overlay)
    /\ df_weights' = DfWeights(overlay, grid_cell_fraction')
    /\ IF HasDuplicateIndex(df_weights')
       THEN pc' = "error_unstack" /\ UNCHANGED weights_sparse
       ELSE pc' = "weights" /\ weights_sparse' = Unstack(df_weights')
    /\ UNCHANGED <<regions_df, ds, grid_df, overlay, var_data, var_regridded, call_vars,
                   poly_vars, task_vars, env_vars, bag_vars, helper_vars, rechunk_vars,
                   daily_vars, explorer_vars>>

\* after a variable has been regridded: the section run again from `var = ...` on, for
\* another variable of the same dataset; the values read so far stay in memory
RunAgain ==
    /\ pc = "done"
    /\ reruns < MaxReruns
    /\ reruns' = reruns + 1
    /\ pc' = "subset"
    /\ UNCHANGED <<table_vars, call_vars, poly_vars, task_vars, env_vars, bag_vars, helper_vars,
                   rechunk_vars, daily_vars, explorer_vars>>

\* regions for the runs that are repeated: the region tables whose regions all span
\* the grid from its lower to its upper edge
RerunTables ==
    {t \in RegionTables :
        \A i \in 1..Len(t) : /\ MinY(t[i].geometry) = FromLcc(crs_orig, <<0, 0>>)[2]
                             /\ MaxY(t[i].geometry) = FromLcc(crs_orig, <<0, 4>>)[2]}

InitRerun ==
    /\ InitPipeline(RerunTables, DsCoords)
    /\ NoCall
    /\ NoPoly
    /\ NoTasks
    /\ NoEnv
    /\ NoBag
    /\ NoHelper
    /\ NoRechunk
    /\ NoDaily
    /\ NoExplorer
    /\ reruns = 0

NextRerun ==
    \/ Next
    \/ RebuildWeights
    \/ RunAgain

SpecRerun == InitRerun /\ [][NextRerun]_vars

(***************************************************************************)
(* The end-to-end scenario: a 4x4 grid of equal square cells covered by    *)
(* the two halves "left" and "right"; lengths are in half cell widths, so  *)
(* the grid spans 0..8 and a cell is 2 wide.                               *)
(***************************************************************************)
E2ECoords == [x |-> <<1, 3, 5, 7>>, y |-> <<1, 3, 5, 7>>]

E2EBox(x0, x1) ==
    Box(<<FromLcc(crs_orig, <<x0, 0>>)[1], FromLcc(crs_orig, <<x1, 8>>)[1]>>,
                   <<FromLcc(crs_orig, <<x0, 0>>)[2], FromLcc(crs_orig, <<x1, 8>>)[2]>>)

E2ETables ==
    {<<[name |-> "left", geometry |-> E2EBox(0, 4)], [name |-> "right", geometry |-> E2EBox(4, 8)]>>,
     <<[name |-> "right", geometry |-> E2EBox(4, 8)], [name |-> "left", geometry |-> E2EBox(0, 4)]>>}

InitE2E == InitPipeline(E2ETables, E2ECoords) /\ NoCall /\ NoOther

NextE2E ==
    \/ RegionsToGridCrs
    \/ SubsetToBbox
    \/ BuildGridPolygons
    \/ ToAreaCrs
    \/ ComputeOverlay
    \/ AreaFraction
    \/ BuildWeights
    \/ RegridUniform

SpecE2E == InitE2E /\ [][NextE2E]_vars

(***************************************************************************)
(* apply_weights_matmul_sparse called on arbitrary small arrays.           *)
(***************************************************************************)
CallShapes == {<<a, b, c>> : a \in 1..MaxTime, b \in 1..MaxDim, c \in 1..MaxDim}

WeightShapes == {<<a, b, c>> : a \in 1..MaxDim, b \in 1..MaxDim, c \in 1..MaxDim}

\* array contents: small values, zeros among them, that differ from cell to cell
SeedArray(shape, seed) ==
    NdArray(shape, [k \in 1..Size(shape) |-> Rat((seed + k * k) % 3, 1)])

DataArgs == {SeedArray(sh, seed) : sh \in CallShapes, seed \in 0..MaxSeed}

WeightArgs == {CooFromNumpy(SeedArray(sh, seed + 1)) : sh \in WeightShapes, seed \in 0..MaxSeed}

NoPipeline ==
    /\ regions_df = None
    /\ ds = None
    /\ grid_df = None
    /\ overlay = None
    /\ grid_cell_fraction = None
    /\ df_weights = None
    /\ weights_sparse = None
    /\ var_data = None
    /\ var_regridded = None

InitCall ==
    /\ pc = "idle"
    /\ NoPipeline
    /\ weights_arg \in WeightArgs
    /\ data_arg \in DataArgs
    /\ regridded = None
    /\ NoOther

CallRegridder ==
    /\ pc = "idle"
    /\ regridded = None
    /\ regridded' = apply_weights_matmul_sparse(weights_arg, data_arg)
    /\ UNCHANGED <<pipeline_vars, weights_arg, data_arg, other_vars>>

NextCall == CallRegridder

SpecCall == InitCall /\ [][NextCall]_vars

(***************************************************************************)
(* bounds_to_poly called on arbitrary small bounds arrays.                 *)
(***************************************************************************)
\* the longest bounds array tried
MaxBounds == 3

\* the largest bound value tried
MaxBound == 1

\* arrays of 0..MaxBounds values
BoundsArrays == UNION {[1..len -> 0..MaxBound] : len \in 0..MaxBounds}

InitPoly ==
    /\ pc = "poly_idle"
    /\ NoPipeline
    /\ NoCall
    /\ x_bounds_arg \in BoundsArrays
    /\ y_bounds_arg \in BoundsArrays
    /\ poly = None
    /\ NoTasks
    /\ NoRerun
    /\ NoEnv
    /\ NoBag
    /\ NoHelper
    /\ NoRechunk
    /\ NoDaily
    /\ NoExplorer

CallBoundsToPoly ==
    /\ pc = "poly_idle"
    /\ poly' = bounds_to_poly(x_bounds_arg, y_bounds_arg)
    /\ pc' = "poly_called"
    /\ UNCHANGED <<table_vars, call_vars, x_bounds_arg, y_bounds_arg, task_vars, reruns, env_vars,
                   bag_vars, helper_vars, rechunk_vars, daily_vars, explorer_vars>>

NextPoly == CallBoundsToPoly

SpecPoly == InitPoly /\ [][NextPoly]_vars

(***************************************************************************)
(* apply_weights_matmul_sparse run by dask, one call (task) per chunk of   *)
(* ds[var] along time, statement by statement.  Arrays are objects in      *)
(* memory; every task is handed the same weights object and its own chunk; *)
(* workers run the tasks' statements in any interleaving.                  *)
(***************************************************************************)
\* the longest time axis tried
MaxSteps == 3

\* the (rows, columns) grids tried
GridShapes == {<<1, 2>>, <<2, 2>>}

\* the ways to cut time steps first..last into consecutive chunks
RECURSIVE Partitions(_, _)
Partitions(first, last) ==
    IF first > last THEN {<<>>}
    ELSE UNION {{<<<<first, cut>>>> \o rest : rest \in Partitions(cut + 1, last)} :
                   cut \in first..last}

\* references: <<0, 1>> is the weights object, <<0, 2>> the array of ds[var];
\* <<t, i>> is the i-th array task t creates, <<t, 0>> the chunk it is handed
Null == <<0, 0>>

WeightsRef == <<0, 1>>

DataRef == <<0, 2>>

\* mutant of TimeSlice: every chunk is read from the start of the time axis
TimeSliceFromStart(a, first, last) ==
    LET plane == a.shape[2] * a.shape[3]
    IN NdArray(<<last - first + 1, a.shape[2], a.shape[3]>>,
               [k \in 1..((last - first + 1) * plane) |-> a.flat[k]])

\* the block of time steps first..last of a (time, y, x) array
TimeSlice(a, first, last) ==
    LET plane == a.shape[2] * a.shape[3]
    IN NdArray(<<last - first + 1, a.shape[2], a.shape[3]>>,
               [k \in 1..((last - first + 1) * plane) |-> a.flat[(first - 1) * plane + k]])

\* mutant of Reshaped: the array is reshaped in place and returned
ReshapedInPlace(h, ref, new, shape) ==
    [r \in DOMAIN h \cup {new} |->
        IF r \in {ref, new} THEN CooReshape(h[ref], shape) ELSE h[r]]

\* a.reshape(shape) of a sparse array: a new array, the array itself is left alone
Reshaped(h, ref, new, shape) ==
    [r \in DOMAIN h \cup {new} |-> IF r = new THEN CooReshape(h[ref], shape) ELSE h[r]]

\* the frame of a call that has not started
NewFrame(t) ==
    [pc |-> "from_numpy", weights |-> WeightsRef, data |-> <<t, 0>>, weights_data |-> Null,
     n |-> 0, k |-> 0, k_ |-> 0, m |-> 0, out |-> None]

\* the arrays tried: data of MaxSteps or fewer time steps, weights of one or two regions
TaskData ==
    {SeedArray(<<n, g[1], g[2]>>, seed) : n \in 1..MaxSteps, g \in GridShapes, seed \in 0..MaxSeed}

TaskWeights ==
    {CooFromNumpy(SeedArray(<<g[1], g[2], m>>, m)) : g \in GridShapes, m \in 1..2}

\* the calls made on a data array: one per chunk of a partition of its time axis,
\* or the same call on the whole array made twice
ChunkLists(a) ==
    Partitions(1, a.shape[1]) \cup {<< <<1, a.shape[1]>>, <<1, a.shape[1]>> >>}

InitTasks ==
    /\ pc = "tasks_running"
    /\ NoPipeline
    /\ NoPoly
    /\ NoRerun
    /\ NoEnv
    /\ NoBag
    /\ NoHelper
    /\ NoRechunk
    /\ NoDaily
    /\ NoExplorer
    /\ weights_arg \in TaskWeights
    /\ data_arg \in TaskData
    /\ regridded = None
    /\ chunks \in ChunkLists(data_arg)
    /\ heap = [r \in {WeightsRef, DataRef} \cup {<<t, 0>> : t \in 1..Len(chunks)} |->
                 IF r = WeightsRef THEN weights_arg
                 ELSE IF r = DataRef THEN data_arg
                 ELSE TimeSlice(data_arg, chunks[r[1]][1], chunks[r[1]][2])]
    /\ tasks = [t \in 1..Len(chunks) |-> NewFrame(t)]

\* a task ends by raising
Raise(t, error) ==
    /\ tasks' = [tasks EXCEPT ![t].pc = "raised", ![t].out = error]
    /\ UNCHANGED heap

\* assert isinstance(weights, sparse.SparseArray); assert isinstance(data, np.ndarray)
\* data = sparse.COO.from_numpy(data)
TaskFromNumpy(t) ==
    /\ pc = "tasks_running"
    /\ tasks[t].pc = "from_numpy"
    /\ IF heap[tasks[t].weights].kind # "COO" \/ heap[tasks[t].data].kind # "ndarray"
       THEN Raise(t, AssertionError)
       ELSE /\ heap' = [r \in DOMAIN heap \cup {<<t, 1>>} |->
                          IF r = <<t, 1>> THEN CooFromNumpy(heap[tasks[t].data]) ELSE heap[r]]
            /\ tasks' = [tasks EXCEPT ![t].pc = "reshape_data", ![t].data = <<t, 1>>]
    /\ UNCHANGED <<pc, table_vars, call_vars, poly_vars, chunks, reruns, env_vars,
                   bag_vars, helper_vars, rechunk_vars, daily_vars, explorer_vars>>

\* data_shape = data.shape; n, k = data_shape[0], data_shape[1] * data_shape[2]
\* data = data.reshape((n, k))
TaskReshapeData(t) ==
    /\ pc = "tasks_running"
    /\ tasks[t].pc = "reshape_data"
    /\ LET data_shape == heap[tasks[t].data].shape
       IN IF Len(data_shape) < 3
          THEN Raise(t, IndexError)
          ELSE LET n == data_shape[1]
                   k == data_shape[2] * data_shape[3]
               IN /\ heap' = Reshaped(heap, tasks[t].data, <<t, 2>>, <<n, k>>)
                  /\ tasks' = [tasks EXCEPT ![t].pc = "reshape_weights", ![t].data = <<t, 2>>,
                                            ![t].n = n, ![t].k = k]
    /\ UNCHANGED <<pc, table_vars, call_vars, poly_vars, chunks, reruns, env_vars,
                   bag_vars, helper_vars, rechunk_vars, daily_vars, explorer_vars>>

\* weights_shape = weights.shape; k_, m = weights_shape[0] * weights_shape[1], weights_shape[2]
\* assert k == k_; weights_data = weights.reshape((k, m))
TaskReshapeWeights(t) ==
    /\ pc = "tasks_running"
    /\ tasks[t].pc = "reshape_weights"
    /\ LET weights_shape == heap[tasks[t].weights].shape
       IN IF Len(weights_shape) < 3
          THEN Raise(t, IndexError)
          ELSE LET k_ == weights_shape[1] * weights_shape[2]
                   m == weights_shape[3]
               IN IF tasks[t].k # k_
                  THEN Raise(t, AssertionError)
                  ELSE /\ heap' = Reshaped(heap, tasks[t].weights, <<t, 3>>, <<tasks[t].k, m>>)
                       /\ tasks' = [tasks EXCEPT ![t].pc = "matmul", ![t].weights_data = <<t, 3>>,
                                                 ![t].k_ = k_, ![t].m = m]
    /\ UNCHANGED <<pc, table_vars, call_vars, poly_vars, chunks, reruns, env_vars,
                   bag_vars, helper_vars, rechunk_vars, daily_vars, explorer_vars>>

\* regridded = sparse.matmul(data, weights_data); assert regridded.shape == (n, m)
\* return regridded.todense()
TaskMatmul(t) ==
    /\ pc = "tasks_running"
    /\ tasks[t].pc = "matmul"
    /\ LET product == CooMatmul(heap[tasks[t].data], heap[tasks[t].weights_data])
       IN IF product.shape # <<tasks[t].n, tasks[t].m>>
          THEN Raise(t, AssertionError)
          ELSE /\ heap' = [r \in DOMAIN heap \cup {<<t, 4>>} |->
                             IF r = <<t, 4>> THEN product ELSE heap[r]]
               /\ tasks' = [tasks EXCEPT ![t].pc = "returned", ![t].out = Todense(product)]
    /\ UNCHANGED <<pc, table_vars, call_vars, poly_vars, chunks, reruns, env_vars,
                   bag_vars, helper_vars, rechunk_vars, daily_vars, explorer_vars>>

\* the blocks of the tasks put one after the other along time
RECURSIVE Concatenate(_)
Concatenate(blocks) ==
    IF Len(blocks) = 1 THEN blocks[1]
    ELSE LET rest == Concatenate(Tail(blocks))
         IN NdArray(<<blocks[1].shape[1] + rest.shape[1], rest.shape[2]>>,
                    blocks[1].flat \o rest.flat)

\* var_regridded.compute() of a chunked ds[var]: the blocks in the order of their
\* chunks, once every task has ended; a task's exception is the exception of compute
Compute ==
    /\ pc = "tasks_running"
    /\ chunks \in Partitions(1, data_arg.shape[1])
    /\ \A t \in 1..Len(chunks) : tasks[t].pc \in {"returned", "raised"}
    /\ regridded' =
          IF \E t \in 1..Len(chunks) : tasks[t].pc = "raised"
          THEN tasks[CHOOSE t \in 1..Len(chunks) :
                        /\ tasks[t].pc = "raised"
                        /\ \A u \in 1..(t - 1) : tasks[u].pc # "raised"].out
          ELSE Concatenate([t \in 1..Len(chunks) |-> tasks[t].out])
    /\ pc' = "tasks_done"
    /\ UNCHANGED <<table_vars, weights_arg, data_arg, poly_vars, task_vars, reruns, env_vars,
                   bag_vars, helper_vars, rechunk_vars, daily_vars, explorer_vars>>

NextTasks ==
    \/ \E t \in 1..Len(chunks) :
          \/ TaskFromNumpy(t)
          \/ TaskReshapeData(t)
          \/ TaskReshapeWeights(t)
          \/ TaskMatmul(t)
    \/ Compute

SpecTasks == InitTasks /\ [][NextTasks]_vars

(***************************************************************************)
(* The first cells of the notebooks: the dataset and the machine are       *)
(* chosen from os.environ, configure_cluster(machine) starts a cluster and *)
(* a client, the dataset is opened from the catalog, and the last cell     *)
(* shuts the cluster down.  The three notebooks are conus404_explore       *)
(* ("explore") and the two of conus404_temporal_aggregation ("temporal",   *)
(* "spatial").                                                             *)
(***************************************************************************)
Notebooks == {"explore", "temporal", "spatial"}

\* values of SLURM_CLUSTER_NAME tried: the machines configure_cluster knows, and one
\* it does not
ClusterNames == {"denali", "tallgrass", "local", "esip-qhub-gateway-v0.4", "hovenweep"}

\* os.environ: each of the variables the cells read is defined or not
Environs ==
    UNION {[names -> {"set"}] : names \in SUBSET {"SLURM_JOB_ACCOUNT", "HOME"}}

EnvironsWithCluster ==
    Environs \cup
    {[v \in DOMAIN e \cup {"SLURM_CLUSTER_NAME"} |->
         IF v = "SLURM_CLUSTER_NAME" THEN name ELSE e[v]] : e \in Environs, name \in ClusterNames}

Unbound == "unbound"

\* what a call of configure_cluster gives: the client and cluster it returns and the
\* clusters it started, or the exception it raised
Configured(kind) == [client |-> kind, cluster |-> kind, started |-> <<kind>>, error |-> ""]

Raised(error) == [client |-> Unbound, cluster |-> Unbound, started |-> <<>>, error |-> error]

\* configure_cluster(machine) of the notebook at hand; a machine that matches no
\* branch leaves client and cluster unassigned and `return client, cluster` raises;
\* in the temporal notebook the 'local' branch uses LocalCluster, which the import in
\* the 'denali' branch makes a local name of the function that is not assigned there
configure_cluster(name) ==
    IF name = "denali" THEN Configured("LocalCluster")
    ELSE IF name = "tallgrass"
         THEN IF notebook = "explore" /\ "SLURM_JOB_ACCOUNT" \notin DOMAIN environ
              THEN Raised("KeyError")
              ELSE Configured("SLURMCluster")
    ELSE IF name = "local"
         THEN IF notebook = "temporal"
              THEN Raised("UnboundLocalError")
              ELSE Configured("LocalCluster")
    ELSE IF name \in {"esip-qhub-gateway-v0.4"}
         THEN IF "HOME" \notin DOMAIN environ
              THEN Raised("KeyError")
              ELSE Configured("ebd.start_dask_cluster")
    ELSE Raised("UnboundLocalError")

InitEnv ==
    /\ pc = "env_start"
    /\ NoPipeline
    /\ NoCall
    /\ NoPoly
    /\ NoTasks
    /\ NoRerun
    /\ NoBag
    /\ NoHelper
    /\ NoRechunk
    /\ NoDaily
    /\ NoExplorer
    /\ notebook \in Notebooks
    /\ environ \in EnvironsWithCluster
    /\ dataset = Unbound
    /\ machine = Unbound
    /\ cluster = Unbound
    /\ client = Unbound
    /\ started = <<>>
    /\ opened = Unbound

\* if 'SLURM_CLUSTER_NAME' in os.environ: dataset = ...; machine = ...;
\* client, cluster = configure_cluster(machine)   else: ...
SelectDataset ==
    /\ pc = "env_start"
    /\ LET on_prem == "SLURM_CLUSTER_NAME" \in DOMAIN environ
           result == configure_cluster(machine')
       IN /\ dataset' = IF on_prem THEN "conus404-hourly-onprem" ELSE "conus404-hourly-cloud"
          /\ machine' = IF on_prem THEN environ["SLURM_CLUSTER_NAME"] ELSE "esip-qhub-gateway-v0.4"
          /\ client' = result.client
          /\ cluster' = result.cluster
          /\ started' = started \o result.started
          /\ pc' = IF result.error = "" THEN "env_selected" ELSE "env_error"
    /\ UNCHANGED <<table_vars, call_vars, poly_vars, task_vars, reruns, bag_vars, notebook, environ,
                   opened, helper_vars, rechunk_vars, daily_vars, explorer_vars>>

\* ds = cat[dataset].to_dask(); the spatial notebook opens cat['conus404-daily-cloud']
OpenDataset ==
    /\ pc = "env_selected"
    /\ opened' = IF notebook = "spatial" THEN "conus404-daily-cloud" ELSE dataset
    /\ pc' = "env_opened"
    /\ UNCHANGED <<table_vars, call_vars, poly_vars, task_vars, reruns, bag_vars, notebook, environ,
                   dataset, machine, cluster, client, started, helper_vars, rechunk_vars,
                   daily_vars, explorer_vars>>

\* cluster.shutdown()
ShutdownCluster ==
    /\ pc = "env_opened"
    /\ started' = SelectSeq(started, LAMBDA kind : kind # cluster)
    /\ pc' = "env_shutdown"
    /\ UNCHANGED <<table_vars, call_vars, poly_vars, task_vars, reruns, bag_vars, notebook, environ,
                   dataset, machine, cluster, client, opened, helper_vars, rechunk_vars,
                   daily_vars, explorer_vars>>

NextEnv ==
    \/ SelectDataset
    \/ OpenDataset
    \/ ShutdownCluster

SpecEnv == InitEnv /\ [][NextEnv]_vars

(***************************************************************************)
(* The dask bag of the parallel-map tutorial: a list is turned into a bag, *)
(* myFunc is mapped over it lazily, and compute() runs one task per        *)
(* partition on the threads of a local cluster, in whatever order the      *)
(* scheduler hands them out, then gathers the partitions' lists.           *)
(***************************************************************************)
MaxList == 3

MaxElement == 3

MaxThreads == 2

MaxComputes == 2

\* def myFunc(i): return i**2
myFunc(i) == i * i

\* list(map(myFunc, myList)): one call after the other, in list order
SequentialMap(list) == [i \in 1 .. Len(list) |-> myFunc(list[i])]

\* db.from_sequence(seq): a list shorter than 100 gets partitions of one element
from_sequence(seq) == [p \in 1 .. Len(seq) |-> <<seq[p]>>]

\* the position in the list of element j of partition p
PositionOf(p, j) == p + j - 1

\* the task of one partition: list(map(myFunc, partition))
MapPartition(partition) == [j \in 1 .. Len(partition) |-> myFunc(partition[j])]

RECURSIVE concat(_)
concat(lists) ==
    IF lists = <<>> THEN <<>> ELSE Head(lists) \o concat(Tail(lists))

Lists == UNION {[1 .. n -> 1 .. MaxElement] : n \in 1 .. MaxList}

InitBag ==
    /\ pc = "bag_lazy"
    /\ NoPipeline
    /\ NoCall
    /\ NoPoly
    /\ NoTasks
    /\ NoRerun
    /\ NoEnv
    /\ NoHelper
    /\ NoRechunk
    /\ NoDaily
    /\ NoExplorer
    /\ myList \in Lists
    /\ nthreads \in 1 .. MaxThreads
    /\ myBag = from_sequence(myList)
    /\ running = [th \in 1 .. nthreads |-> 0]
    /\ results = [p \in 1 .. Len(myBag) |-> <<>>]
    /\ finished = <<>>
    /\ calls = [i \in 1 .. Len(myList) |-> 0]
    /\ computes = 0
    /\ computed = None

\* result.compute(): the graph of the mapped bag is submitted, one task per partition
StartCompute ==
    /\ pc \in {"bag_lazy", "bag_done"}
    /\ computes < MaxComputes
    /\ pc' = "bag_computing"
    /\ computes' = computes + 1
    /\ results' = [p \in 1 .. Len(myBag) |-> <<>>]
    /\ finished' = <<>>
    /\ UNCHANGED <<table_vars, call_vars, poly_vars, task_vars, reruns, env_vars, myList,
                   nthreads, myBag, running, calls, computed, helper_vars, rechunk_vars,
                   daily_vars, explorer_vars>>

\* an idle thread takes a partition nobody has taken and calls myFunc on its elements
StartTask(th, p) ==
    /\ pc = "bag_computing"
    /\ running[th] = 0
    /\ results[p] = <<>>
    /\ \A other \in DOMAIN running : running[other] # p
    /\ running' = [running EXCEPT ![th] = p]
    /\ calls' = [i \in DOMAIN calls |->
                    IF \E j \in 1 .. Len(myBag[p]) : PositionOf(p, j) = i
                    THEN calls[i] + 1
                    ELSE calls[i]]
    /\ UNCHANGED <<pc, table_vars, call_vars, poly_vars, task_vars, reruns, env_vars, myList,
                   nthreads, myBag, results, finished, computes, computed, helper_vars,
                   rechunk_vars, daily_vars, explorer_vars>>

\* the thread's task returns the list of its partition
FinishTask(th) ==
    /\ pc = "bag_computing"
    /\ running[th] # 0
    /\ results' = [results EXCEPT ![running[th]] = MapPartition(myBag[running[th]])]
    /\ finished' = Append(finished, running[th])
    /\ running' = [running EXCEPT ![th] = 0]
    /\ UNCHANGED <<pc, table_vars, call_vars, poly_vars, task_vars, reruns, env_vars, myList,
                   nthreads, myBag, calls, computes, computed, helper_vars, rechunk_vars,
                   daily_vars, explorer_vars>>

\* a gather that takes the partitions' lists as the tasks end
GatherAsCompleted ==
    /\ pc = "bag_computing"
    /\ \A p \in DOMAIN results : results[p] # <<>>
    /\ computed' = concat([k \in 1 .. Len(finished) |-> results[finished[k]]])
    /\ pc' = "bag_done"
    /\ UNCHANGED <<table_vars, call_vars, poly_vars, task_vars, reruns, env_vars, myList,
                   nthreads, myBag, running, results, finished, calls, computes, helper_vars,
                   rechunk_vars, daily_vars, explorer_vars>>

\* compute() returns once every task has ended: the partitions' lists, in partition order
Gather ==
    /\ pc = "bag_computing"
    /\ \A p \in DOMAIN results : results[p] # <<>>
    /\ computed' = concat(results)
    /\ pc' = "bag_done"
    /\ UNCHANGED <<table_vars, call_vars, poly_vars, task_vars, reruns, env_vars, myList,
                   nthreads, myBag, running, results, finished, calls, computes, helper_vars,
                   rechunk_vars, daily_vars, explorer_vars>>

\* client.close(); cluster.close()
CloseCluster ==
    /\ pc = "bag_done"
    /\ pc' = "bag_closed"
    /\ UNCHANGED <<table_vars, call_vars, poly_vars, task_vars, reruns, env_vars, bag_vars, helper_vars,
                   rechunk_vars, daily_vars, explorer_vars>>

NextBag ==
    \/ StartCompute
    \/ \E th \in DOMAIN running : \E p \in DOMAIN results : StartTask(th, p)
    \/ \E th \in DOMAIN running : FinishTask(th)
    \/ Gather
    \/ CloseCluster

SpecBag == InitBag /\ [][NextBag]_vars

(***************************************************************************)
(* The AWS credentials helper: it reads the credentials file, picks the    *)
(* profile and the endpoint from the environment or its defaults, and      *)
(* copies the profile's keys into the environment.                         *)
(***************************************************************************)
Profiles == {"osn-renci", "esip-qhub", "default"}

Endpoints == {"https://renc.osn.xsede.org", "https://s3.us-west-2.amazonaws.com"}

Options == {"aws_access_key_id", "aws_secret_access_key"}

\* the value the credentials file holds for an option of a profile
OptionValue(profile, option) == option \o " of " \o profile

\* awsconfig.read(...): any of the profiles, each with any of the two options
AwsConfigs ==
    UNION {{[profile \in present |-> [option \in options[profile] |->
                                         OptionValue(profile, option)]] :
             options \in [present -> SUBSET Options]} :
           present \in SUBSET Profiles}

Accounts == {"hytest", "impd"}

\* os.environ before the helpers run
HelperEnvirons ==
    UNION {{[name \in names |->
                IF name = "AWS_PROFILE" THEN profile
                ELSE IF name = "AWS_S3_ENDPOINT" THEN endpoint
                ELSE account] :
             profile \in Profiles, endpoint \in Endpoints, account \in Accounts} :
           names \in SUBSET {"AWS_PROFILE", "AWS_S3_ENDPOINT", "SLURM_JOB_ACCOUNT"}}

\* os.environ.get with the default dropped
environ_get_default(env, key, default) == default

\* os.environ.get(key, default)
environ_get(env, key, default) == IF key \in DOMAIN env THEN env[key] ELSE default

\* os.environ[key] = value
environ_set(env, key, value) ==
    [name \in DOMAIN env \cup {key} |-> IF name = key THEN value ELSE env[name]]

InitHelpers ==
    /\ pc = "aws_start"
    /\ NoPipeline
    /\ NoCall
    /\ NoPoly
    /\ NoTasks
    /\ NoRerun
    /\ NoBag
    /\ NoRechunk
    /\ NoDaily
    /\ NoExplorer
    /\ notebook = None
    /\ environ \in HelperEnvirons
    /\ dataset = None
    /\ machine = None
    /\ cluster = None
    /\ client = None
    /\ started = <<>>
    /\ opened = None
    /\ awsconfig \in AwsConfigs
    /\ log = <<>>

\* os.environ['AWS_PROFILE'] = 'esip-qhub', the line before %run of the helper
SetProfile ==
    /\ pc = "aws_start"
    /\ pc' = "aws_profile_set"
    /\ environ' = environ_set(environ, "AWS_PROFILE", "esip-qhub")
    /\ UNCHANGED <<table_vars, call_vars, poly_vars, task_vars, reruns, bag_vars, notebook,
                   dataset, machine, cluster, client, started, opened, awsconfig, log,
                   rechunk_vars, daily_vars, explorer_vars>>

\* the helper's cell: the assignments of the try block, cut short at the first KeyError
RunHelper ==
    /\ pc \in {"aws_start", "aws_profile_set"}
    /\ LET _profile_nm == environ_get(environ, "AWS_PROFILE", "osn-renci")
           _endpoint == environ_get(environ, "AWS_S3_ENDPOINT", "https://renc.osn.xsede.org")
           has(option) ==
               /\ _profile_nm \in DOMAIN awsconfig
               /\ option \in DOMAIN awsconfig[_profile_nm]
           e1 == environ_set(environ, "AWS_ACCESS_KEY_ID",
                             awsconfig[_profile_nm]["aws_access_key_id"])
           e2 == environ_set(e1, "AWS_SECRET_ACCESS_KEY",
                             awsconfig[_profile_nm]["aws_secret_access_key"])
           e3 == environ_set(e2, "AWS_S3_ENDPOINT", _endpoint)
           e4 == environ_set(e3, "AWS_PROFILE", _profile_nm)
           e5 == environ_set(e4, "AWS_DEFAULT_PROFILE", _profile_nm)
           e6 == environ_set(e5, "AWS_S3_REGION", _profile_nm)
           message == "Problem parsing the AWS credentials file. "
       IN  IF ~has("aws_access_key_id")
           THEN /\ environ' = environ
                /\ log' = Append(log, message)
                /\ pc' = "aws_logged"
           ELSE IF ~has("aws_secret_access_key")
           THEN /\ environ' = e1
                /\ log' = Append(log, message)
                /\ pc' = "aws_logged"
           ELSE /\ environ' = e6
                /\ log' = log
                /\ pc' = "aws_done"
    /\ UNCHANGED <<table_vars, call_vars, poly_vars, task_vars, reruns, bag_vars, notebook,
                   dataset, machine, cluster, client, started, opened, awsconfig, rechunk_vars,
                   daily_vars, explorer_vars>>

\* SLURMCluster(..., project=project, ...); cluster.adapt(minimum=2, maximum=30)
SLURMCluster(project) ==
    [kind |-> "SLURMCluster", project |-> project, minimum |-> 2, maximum |-> 30]

\* Client(cluster)
Client(of) == [kind |-> "Client", cluster |-> of]

\* the text of the helper's logging.error
NoAccountMessage ==
    "SLURM_JOB_ACCOUNT is not set in the active environment. Are you on the login node? You should not be running this there."

\* a helper that logs the missing account and goes on
RunTallgrassHelperLogOnly ==
    /\ pc \in {"aws_done", "aws_logged"}
    /\ LET account == environ_get(environ, "SLURM_JOB_ACCOUNT", "")
           message == NoAccountMessage
       IN  /\ log' = IF "SLURM_JOB_ACCOUNT" \in DOMAIN environ THEN log
                      ELSE Append(log, message)
           /\ cluster' = SLURMCluster(account)
           /\ client' = Client(cluster')
           /\ started' = Append(started, cluster')
           /\ pc' = IF "SLURM_JOB_ACCOUNT" \in DOMAIN environ THEN "tallgrass_ready"
                     ELSE "tallgrass_raised"
    /\ UNCHANGED <<table_vars, call_vars, poly_vars, task_vars, reruns, bag_vars, notebook,
                   environ, dataset, machine, opened, awsconfig, rechunk_vars, daily_vars,
                   explorer_vars>>

\* the Tallgrass cluster helper's cell, run where the caller picks its cluster helper
RunTallgrassHelper ==
    /\ pc \in {"aws_done", "aws_logged"}
    /\ IF "SLURM_JOB_ACCOUNT" \notin DOMAIN environ
       THEN /\ log' = Append(log, NoAccountMessage)
            /\ pc' = "tallgrass_raised"
            /\ UNCHANGED <<cluster, client, started, rechunk_vars, daily_vars, explorer_vars>>
       ELSE /\ cluster' = SLURMCluster(environ["SLURM_JOB_ACCOUNT"])
            /\ client' = Client(cluster')
            /\ started' = Append(started, cluster')
            /\ pc' = "tallgrass_ready"
            /\ log' = log
    /\ UNCHANGED <<table_vars, call_vars, poly_vars, task_vars, reruns, bag_vars, notebook,
                   environ, dataset, machine, opened, awsconfig, rechunk_vars, daily_vars,
                   explorer_vars>>

NextHelpers ==
    \/ SetProfile
    \/ RunHelper
    \/ RunTallgrassHelper

SpecHelpers == InitHelpers /\ [][NextHelpers]_vars

(***************************************************************************)
(* Rechunking of the streamflow dataset: the features with a gage are      *)
(* taken as the sample, rechunker lays out one copy task per chunk of the  *)
(* plan, the tasks run on the cluster in any order and may be retried, and *)
(* the output store is opened again.                                       *)
(***************************************************************************)
\* the time steps of the dataset, which the plan writes as 367439
TimeSteps == 2

\* the features of the dataset before the gaged ones are taken
MaxFeatures == 3

\* the features the plan counts on, which it writes as 7994
PlanFeatures == 2

MaxRetries == 1

\* the index tuples of an array of that shape
IndexSet(shape) ==
    IF Len(shape) = 0 THEN {<<>>}
    ELSE IF Len(shape) = 1 THEN {<<i>> : i \in 1 .. shape[1]}
    ELSE {<<i, j>> : i \in 1 .. shape[1], j \in 1 .. shape[2]}

DataArray(dims, shape, data) == [dims |-> dims, shape |-> shape, data |-> data]

\* chrtout.zarr: gage_id is 0 where the feature has no gage; every value of the
\* dataset differs from every other, so that a value put in the wrong place shows
Chrtout(gages, with_crs) ==
    LET n == Len(gages)
        two_d(base) == DataArray(<<"time", "feature_id">>, <<TimeSteps, n>>,
                           [idx \in IndexSet(<<TimeSteps, n>>) |->
                               base + (idx[1] - 1) * n + idx[2]])
        one_d(dim, len, values) == DataArray(<<dim>>, <<len>>,
                           [idx \in IndexSet(<<len>>) |-> values[idx[1]]])
        base_vars == [name \in {"streamflow", "velocity", "gage_id", "time", "feature_id"} |->
                        IF name = "streamflow" THEN two_d(100)
                        ELSE IF name = "velocity" THEN two_d(200)
                        ELSE IF name = "gage_id" THEN one_d("feature_id", n, gages)
                        ELSE IF name = "time" THEN one_d("time", TimeSteps,
                                                        [t \in 1 .. TimeSteps |-> 300 + t])
                        ELSE one_d("feature_id", n, [f \in 1 .. n |-> 400 + f])]
    IN  IF with_crs
        THEN [name \in DOMAIN base_vars \cup {"crs"} |->
                 IF name = "crs" THEN DataArray(<<>>, <<>>, [idx \in {<<>>} |-> 500])
                 ELSE base_vars[name]]
        ELSE base_vars

ChrtoutDatasets ==
    {Chrtout(gages, with_crs) :
        gages \in UNION {[1 .. n -> 0 .. 1] : n \in 1 .. MaxFeatures},
        with_crs \in BOOLEAN}

Coordinates == {"time", "feature_id"}

\* ds.where(ds.gage_id != blank, drop=True): the features with a gage are kept, in
\* order; a data variable without the feature_id dimension is broadcast along it
WhereGaged(xds) ==
    LET gage == xds["gage_id"]
        kept == SetToSortedSeq({f \in 1 .. gage.shape[1] : gage.data[<<f>>] # 0})
        n == Len(kept)
        one(a) ==
            IF a.dims = <<"feature_id">>
            THEN DataArray(a.dims, <<n>>, [idx \in IndexSet(<<n>>) |-> a.data[<<kept[idx[1]]>>]])
            ELSE IF a.dims = <<"time", "feature_id">>
            THEN DataArray(a.dims, <<a.shape[1], n>>,
                           [idx \in IndexSet(<<a.shape[1], n>>) |->
                               a.data[<<idx[1], kept[idx[2]]>>]])
            ELSE a
        broadcast(a) ==
            IF a.dims = <<>>
            THEN DataArray(<<"feature_id">>, <<n>>, [idx \in IndexSet(<<n>>) |-> a.data[<<>>]])
            ELSE a
    IN  [name \in DOMAIN xds |->
            IF name \in Coordinates THEN one(xds[name])
            ELSE broadcast(one(xds[name]))]

\* smplData.drop('crs'): the xds without the variable, which the cell does not keep
Drop(xds, name) == [v \in DOMAIN xds \ {name} |-> xds[v]]

\* a plan that keeps every feature of a time step together
chunk_plan_by_time ==
    [name \in {"streamflow", "velocity", "gage_id", "time", "feature_id"} |->
        IF name \in {"streamflow", "velocity"}
        THEN [dict |-> [time |-> 1, feature_id |-> PlanFeatures]]
        ELSE IF name = "time" THEN [tuple |-> <<TimeSteps>>]
        ELSE [tuple |-> <<PlanFeatures>>]]

\* chunk_plan: a dict per two-dimensional variable, a tuple per one-dimensional one
chunk_plan ==
    [name \in {"streamflow", "velocity", "gage_id", "time", "feature_id"} |->
        IF name \in {"streamflow", "velocity"}
        THEN [dict |-> [time |-> TimeSteps, feature_id |-> 1]]
        ELSE IF name = "time" THEN [tuple |-> <<TimeSteps>>]
        ELSE [tuple |-> <<PlanFeatures>>]]

\* rechunker turns a dict of the plan into a tuple in the order of the variable's dims
ShapeDictToTuple(dims, chunk_shape) ==
    IF "dict" \in DOMAIN chunk_shape
    THEN [d \in 1 .. Len(dims) |-> chunk_shape.dict[dims[d]]]
    ELSE chunk_shape.tuple

\* the chunk an index falls in, counted from 0 along each dimension
ChunkKey(chunk_shape, idx) == [d \in 1 .. Len(idx) |-> (idx[d] - 1) \div chunk_shape[d]]

ChunkKeys(chunk_shape, shape) == {ChunkKey(chunk_shape, idx) : idx \in IndexSet(shape)}

\* the part of an array that one chunk holds
Block(a, chunk_shape, key) ==
    [idx \in {i \in IndexSet(a.shape) : ChunkKey(chunk_shape, i) = key} |-> a.data[idx]]

ZarrArray(a, chunk_shape) ==
    [dims |-> a.dims, shape |-> a.shape, chunks |-> chunk_shape,
     blocks |-> [key \in {} |-> <<>>]]

\* xr.open_zarr on a store: each value read from the chunk its index falls in
OpenZarr(store) ==
    [name \in DOMAIN store |->
        DataArray(store[name].dims, store[name].shape,
                  [idx \in IndexSet(store[name].shape) |->
                      store[name].blocks[ChunkKey(store[name].chunks, idx)][idx]])]

InitRechunk ==
    /\ pc = "rechunk_start"
    /\ regions_df = None
    /\ ds \in ChrtoutDatasets
    /\ grid_df = None
    /\ overlay = None
    /\ grid_cell_fraction = None
    /\ df_weights = None
    /\ weights_sparse = None
    /\ var_data = None
    /\ var_regridded = None
    /\ NoCall
    /\ NoPoly
    /\ NoTasks
    /\ NoRerun
    /\ NoEnv
    /\ NoBag
    /\ NoHelper
    /\ NoDaily
    /\ NoExplorer
    /\ smplData = None
    /\ outfile = None
    /\ todo = {}
    /\ attempts = 0
    /\ reChunkedData = None

\* smplData = ds.where(..., drop=True); smplData.drop('crs') is computed and dropped;
\* smplData = smplData.chunk(...) changes no value
ReadSampleData ==
    /\ pc = "rechunk_start"
    /\ LET dropped == Drop(WhereGaged(ds), "crs")
       IN  smplData' = WhereGaged(ds)
    /\ pc' = "rechunk_sampled"
    /\ UNCHANGED <<table_vars, call_vars, poly_vars, task_vars, reruns, env_vars, bag_vars,
                   helper_vars, outfile, todo, attempts, reChunkedData, daily_vars,
                   explorer_vars>>

\* rechunker.rechunk(smplData, chunk_plan, "2GB", outfile, temp_store=staging): the
\* target arrays are created with the plan's chunks and one copy per chunk is laid out;
\* a variable the plan does not name is a KeyError
Rechunk ==
    /\ pc = "rechunk_sampled"
    /\ IF DOMAIN smplData \subseteq DOMAIN chunk_plan
       THEN /\ outfile' = [name \in DOMAIN smplData |->
                              ZarrArray(smplData[name],
                                        ShapeDictToTuple(smplData[name].dims, chunk_plan[name]))]
            /\ todo' = UNION {{<<name, key>> :
                                key \in ChunkKeys(outfile'[name].chunks, smplData[name].shape)} :
                              name \in DOMAIN smplData}
            /\ pc' = "rechunk_planned"
       ELSE /\ pc' = "rechunk_error"
            /\ UNCHANGED <<outfile, todo, daily_vars, explorer_vars>>
    /\ UNCHANGED <<table_vars, call_vars, poly_vars, task_vars, reruns, env_vars, bag_vars,
                   helper_vars, smplData, attempts, reChunkedData, daily_vars, explorer_vars>>

\* one copy task of result.execute(retries=10): a worker writes one chunk of the output
CopyChunk(name, key) ==
    /\ pc = "rechunk_planned"
    /\ <<name, key>> \in todo
    /\ outfile' = [outfile EXCEPT ![name].blocks =
                      [k \in DOMAIN @ \cup {key} |->
                          IF k = key THEN Block(smplData[name], outfile[name].chunks, key)
                          ELSE @[k]]]
    /\ todo' = todo \ {<<name, key>>}
    /\ UNCHANGED <<pc, table_vars, call_vars, poly_vars, task_vars, reruns, env_vars, bag_vars,
                   helper_vars, smplData, attempts, reChunkedData, daily_vars, explorer_vars>>

\* a copy task fails before it has written and is handed out again
RetryChunk ==
    /\ pc = "rechunk_planned"
    /\ todo # {}
    /\ attempts < MaxRetries
    /\ attempts' = attempts + 1
    /\ UNCHANGED <<pc, table_vars, call_vars, poly_vars, task_vars, reruns, env_vars, bag_vars,
                   helper_vars, smplData, outfile, todo, reChunkedData, daily_vars,
                   explorer_vars>>

\* result.execute returns; reChunkedData = xr.open_zarr(outfile)
OpenReChunked ==
    /\ pc = "rechunk_planned"
    /\ todo = {}
    /\ reChunkedData' = OpenZarr(outfile)
    /\ pc' = "rechunk_done"
    /\ UNCHANGED <<table_vars, call_vars, poly_vars, task_vars, reruns, env_vars, bag_vars,
                   helper_vars, smplData, outfile, todo, attempts, daily_vars, explorer_vars>>

NextRechunk ==
    \/ ReadSampleData
    \/ Rechunk
    \/ \E task \in todo : CopyChunk(task[1], task[2])
    \/ RetryChunk
    \/ OpenReChunked

SpecRechunk == InitRechunk /\ [][NextRechunk]_vars

(***************************************************************************)
(* Daily averages of the temporal notebook: two variables of the hourly    *)
(* dataset are cut to a range of days and resampled to 24-hour means.      *)
(* Times are hours counted from the midnight of day 0.                     *)
(***************************************************************************)
\* resample(time="24H", ...)
Freq == 24

\* resample(..., loffset="12H")
Loffset == 12

\* the days of sel(time=slice('2017-01-02', '2017-01-13')), both included
SliceFirstDay == 1

SliceLastDay == 2

\* the hours the hourly dataset may begin and end at
FirstHours == {0, 1, 23, 24, 30}

LastHours == {40, 47, 48, 71, 80}

\* an hourly value of a variable
HourlyValue(seed, t) == (seed * t + t * t) % 7

\* cat[dataset].to_dask(): hourly from first to last, with the variables of the subset
\* and one more
HourlyDataset(first, last, seed) ==
    LET n == last - first + 1
    IN  [time |-> [i \in 1 .. n |-> first + i - 1],
         T2 |-> [i \in 1 .. n |-> HourlyValue(seed, first + i - 1)],
         U10 |-> [i \in 1 .. n |-> HourlyValue(seed + 3, first + i - 1)],
         SNOW |-> [i \in 1 .. n |-> 0]]

HourlyDatasets ==
    {HourlyDataset(first, last, seed) :
        first \in FirstHours, last \in LastHours, seed \in 0 .. MaxSeed}

\* ds[['T2','U10']].sel(time=slice(first day, last day)): the times from the midnight
\* that begins the first day to the end of the last day
SelDays(xds, first_day, last_day) ==
    LET kept == SetToSortedSeq({i \in 1 .. Len(xds.time) :
                    /\ xds.time[i] >= first_day * Freq
                    /\ xds.time[i] < (last_day + 1) * Freq})
    IN  [time |-> [k \in 1 .. Len(kept) |-> xds.time[kept[k]]],
         T2 |-> [k \in 1 .. Len(kept) |-> xds.T2[kept[k]]],
         U10 |-> [k \in 1 .. Len(kept) |-> xds.U10[kept[k]]]]

\* the mean of the values at the given positions, as a fraction; 0/0 where there are none
MeanOver(values, members) ==
    Rat(SumSeq([k \in 1 .. Len(members) |-> values[members[k]]]), Len(members))

\* resample(...).mean() with the labels left at the start of the bins
resample_mean_no_offset(xds, freq, loffset) ==
    LET n == Len(xds.time)
        origin == (xds.time[1] \div freq) * freq
        bins == (xds.time[n] - origin) \div freq + 1
        members(b) == SetToSortedSeq({i \in 1 .. n :
                          /\ xds.time[i] >= origin + (b - 1) * freq
                          /\ xds.time[i] < origin + b * freq})
    IN  [time |-> [b \in 1 .. bins |-> origin + (b - 1) * freq],
         T2 |-> [b \in 1 .. bins |-> MeanOver(xds.T2, members(b))],
         U10 |-> [b \in 1 .. bins |-> MeanOver(xds.U10, members(b))]]

\* resample(time=freq, loffset=loffset).mean(): bins of freq hours counted from the
\* midnight of the first time's day, closed on the left and labelled by their left edge
\* moved by loffset
resample_mean(xds, freq, loffset) ==
    LET n == Len(xds.time)
        origin == (xds.time[1] \div freq) * freq
        bins == (xds.time[n] - origin) \div freq + 1
        members(b) == SetToSortedSeq({i \in 1 .. n :
                          /\ xds.time[i] >= origin + (b - 1) * freq
                          /\ xds.time[i] < origin + b * freq})
    IN  [time |-> [b \in 1 .. bins |-> origin + (b - 1) * freq + loffset],
         T2 |-> [b \in 1 .. bins |-> MeanOver(xds.T2, members(b))],
         U10 |-> [b \in 1 .. bins |-> MeanOver(xds.U10, members(b))]]

InitDaily ==
    /\ pc = "daily_start"
    /\ regions_df = None
    /\ ds \in HourlyDatasets
    /\ grid_df = None
    /\ overlay = None
    /\ grid_cell_fraction = None
    /\ df_weights = None
    /\ weights_sparse = None
    /\ var_data = None
    /\ var_regridded = None
    /\ NoCall
    /\ NoPoly
    /\ NoTasks
    /\ NoRerun
    /\ NoEnv
    /\ NoBag
    /\ NoHelper
    /\ NoRechunk
    /\ NoExplorer
    /\ ds_subset = None
    /\ ds_subset_daily = None

\* ds_subset = ds[['T2','U10']].sel(time=slice('2017-01-02','2017-01-13'))
SelectSubset ==
    /\ pc = "daily_start"
    /\ ds_subset' = SelDays(ds, SliceFirstDay, SliceLastDay)
    /\ pc' = "daily_subset"
    /\ UNCHANGED <<table_vars, call_vars, poly_vars, task_vars, reruns, env_vars, bag_vars,
                   helper_vars, rechunk_vars, ds_subset_daily, explorer_vars>>

\* ds_subset_daily = ds_subset.resample(time="24H", loffset="12H").mean()
ResampleDaily ==
    /\ pc = "daily_subset"
    /\ ds_subset_daily' = resample_mean(ds_subset, Freq, Loffset)
    /\ pc' = "daily_done"
    /\ UNCHANGED <<table_vars, call_vars, poly_vars, task_vars, reruns, env_vars, bag_vars,
                   helper_vars, rechunk_vars, ds_subset, explorer_vars>>

NextDaily ==
    \/ SelectSubset
    \/ ResampleDaily

SpecDaily == InitDaily /\ [][NextDaily]_vars

(***************************************************************************)
(* The explorer app's choice of the variables it offers: a loop over the   *)
(* data variables of the dataset.  A name is the sequence of the pieces an *)
(* underscore separates, so that Python's `in` between strings is a test   *)
(* for a run of pieces.                                                    *)
(***************************************************************************)
MaxVars == 2

\* sub in s for two strings: sub is a run of consecutive pieces of s
Contains(s, sub) ==
    \E start \in 0 .. Len(s) - Len(sub) :
        \A k \in 1 .. Len(sub) : s[start + k] = sub[k]

\* the names a data variable may have, each with the coordinate whose bounds it
\* holds ("" for a variable that holds no bounds)
VarNames ==
    {[name |-> <<"T2">>, bounds_of |-> ""],
     [name |-> <<"U10">>, bounds_of |-> ""],
     [name |-> <<"time", "bounds">>, bounds_of |-> "time"]}

\* the dimensions a data variable may have
VarDims ==
    {<<>>,
     << <<"time">>, <<"y">>, <<"x">> >>,
     << <<"y">>, <<"x">>, <<"time">> >>,
     << <<"y">>, <<"x">> >>,
     << <<"time">>, <<"nv">> >>}

DataVariables ==
    {[name |-> v.name, bounds_of |-> v.bounds_of, dims |-> dims] : v \in VarNames, dims \in VarDims}

\* ds.data_vars: variables of different names, in the order of the dataset
DataVarLists ==
    {vs \in UNION {[1 .. n -> DataVariables] : n \in 1 .. MaxVars} :
        \A i, j \in 1 .. Len(vs) : i # j => vs[i].name # vs[j].name}

InitExplorer ==
    /\ pc = "explorer_loop"
    /\ NoPipeline
    /\ NoCall
    /\ NoPoly
    /\ NoTasks
    /\ NoRerun
    /\ NoEnv
    /\ NoBag
    /\ NoHelper
    /\ NoRechunk
    /\ NoDaily
    /\ data_vars \in DataVarLists
    /\ visited = 0
    /\ time_vars = <<>>

\* one turn of `for var in ds.data_vars:`, the cell being over after the last
VisitVariable ==
    /\ pc = "explorer_loop"
    /\ visited < Len(data_vars)
    /\ LET var == data_vars[visited + 1]
       IN  time_vars' =
               IF Len(var.dims) > 0
               THEN IF Contains(var.dims[1], <<"time">>) /\ ~Contains(var.name, <<"bounds">>)
                    THEN Append(time_vars, var.name)
                    ELSE time_vars
               ELSE time_vars
    /\ visited' = visited + 1
    /\ pc' = IF visited' = Len(data_vars) THEN "explorer_done" ELSE "explorer_loop"
    /\ UNCHANGED <<table_vars, call_vars, poly_vars, task_vars, reruns, env_vars, bag_vars,
                   helper_vars, rechunk_vars, daily_vars, data_vars>>

NextExplorer == VisitVariable

SpecExplorer == InitExplorer /\ [][NextExplorer]_vars

(***************************************************************************)
(* The pipeline on a grid of three columns and two rows of square cells,   *)
(* 4 wide, with regions that span the grid from its lower to its upper     *)
(* edge and begin and end at, or inside, the columns; two regions of a     *)
(* table may carry the same name.                                          *)
(***************************************************************************)
WideCoords == [x |-> <<2, 6, 10>>, y |-> <<2, 6>>]

\* x offsets of region corners
WideXs == {0, 3, 4, 9, 12}

WideBoxes ==
    {Box(<<FromLcc(crs_orig, <<x0, 0>>)[1], FromLcc(crs_orig, <<x1, 8>>)[1]>>,
         <<FromLcc(crs_orig, <<x0, 0>>)[2], FromLcc(crs_orig, <<x1, 8>>)[2]>>) :
        <<x0, x1>> \in {b \in WideXs \X WideXs : b[1] < b[2]}}

WideTables ==
    {<<[name |-> nm, geometry |-> g]>> : nm \in Range(AllNames), g \in WideBoxes}
    \cup {<<[name |-> nm1, geometry |-> g1], [name |-> nm2, geometry |-> g2]>> :
            nm1 \in Range(AllNames), nm2 \in Range(AllNames),
            g1 \in WideBoxes, g2 \in WideBoxes}

InitWide == InitPipeline(WideTables, WideCoords) /\ NoCall /\ NoOther

SpecWide == InitWide /\ [][Next]_vars

(***************************************************************************)
(* Properties.                                                             *)
(***************************************************************************)
\* how far the run has got
HasOverlay == pc \in {"overlay", "fraction", "weights", "done", "error_unstack", "error_regrid"}

HasEntries == pc \in {"weights", "done", "error_unstack", "error_regrid"}

HasWeights == pc \in {"weights", "done", "error_regrid"}

One == Rat(1, 1)

\* the rows of the overlay (their positions) whose parent region is `name`
FragmentsOf(name) == {k \in 1..Len(overlay) : overlay[k].name = name}

\* the Weight Entries (positions in df_weights) of region `name`
EntriesOf(name) == {k \in 1..Len(df_weights) : df_weights[k].index[3] = name}

\* sum of f over a finite set of positions
RECURSIVE SumOver(_, _)
SumOver(S, f) ==
    IF S = {} THEN 0
    ELSE LET k == CHOOSE k \in S : TRUE IN f[k] + SumOver(S \ {k}, f)

RECURSIVE RSumOver(_, _)
RSumOver(S, f) ==
    IF S = {} THEN RZero
    ELSE LET k == CHOOSE k \in S : TRUE IN RAdd(f[k], RSumOver(S \ {k}, f))

FragmentAreas == [k \in 1..Len(overlay) |-> Area(overlay[k].geometry)]

RegionNames == {regions_df.rows[i].name : i \in 1..Len(regions_df.rows)}

\* C1: once the Weight Entries are built, the weights of every region that has at
\* least one fragment sum to 1
C1_WeightsSumToOne ==
    HasEntries =>
        \A name \in RegionNames :
            EntriesOf(name) # {} =>
                REq(RSumOver(EntriesOf(name), [k \in 1..Len(df_weights) |-> df_weights[k].weights]),
                    One)

\* C1 witness: two regions both have entries, one of them a region that the grid
\* covers only in part and that is spread unevenly over several cells
C1_Witness ==
    /\ HasEntries
    /\ \A name \in Range(AllNames) : EntriesOf(name) # {}
    /\ \E i \in 1..Len(regions_df.rows) :
          LET name == regions_df.rows[i].name
          IN /\ Cardinality(EntriesOf(name)) >= 2
             /\ SumOver(FragmentsOf(name), FragmentAreas) < Area(regions_df.rows[i].geometry)
             /\ \E k1, k2 \in EntriesOf(name) : ~REq(df_weights[k1].weights, df_weights[k2].weights)

\* C5: there is exactly one Weight Entry per overlay fragment, indexed by the
\* fragment's cell and region, and its weight is the fragment's area divided by the
\* sum of the areas of all fragments of that region
C5_WeightIsAreaShare ==
    HasEntries =>
        /\ Len(df_weights) = Len(overlay)
        /\ \A k \in 1..Len(overlay) :
              /\ df_weights[k].index = <<overlay[k].y, overlay[k].x, overlay[k].name>>
              /\ df_weights[k].weights[1] * SumOver(FragmentsOf(overlay[k].name), FragmentAreas)
                    = FragmentAreas[k] * df_weights[k].weights[2]
              /\ df_weights[k].weights[2] # 0

\* C5 witness: a region with three or more fragments of at least two different areas
C5_Witness ==
    /\ HasEntries
    /\ \E name \in RegionNames :
          /\ Cardinality(FragmentsOf(name)) >= 3
          /\ \E k1, k2 \in FragmentsOf(name) : FragmentAreas[k1] # FragmentAreas[k2]
          /\ \A k \in FragmentsOf(name) :
                df_weights[k].weights = Rat(FragmentAreas[k], SumOver(FragmentsOf(name), FragmentAreas))

\* geometry g lies within rectangle p
Within(g, p) ==
    /\ MinX(p) <= MinX(g) /\ MaxX(g) <= MaxX(p)
    /\ MinY(p) <= MinY(g) /\ MaxY(g) <= MaxY(p)

\* the area the grid covers: the cells tile the rectangle spanned by their bounds
GridCoverage ==
    LET cells == {grid_df.rows[i].geometry : i \in 1..Len(grid_df.rows)}
    IN Box(<<Min({MinX(g) : g \in cells}), Max({MaxX(g) : g \in cells})>>,
                      <<Min({MinY(g) : g \in cells}), Max({MaxY(g) : g \in cells})>>)

\* area of the part of geometry g that the grid covers
CoveredArea(g) ==
    LET part == Intersection(g, GridCoverage)
    IN IF part.type = "Polygon" THEN Area(part.geometry) ELSE 0

\* C7: for every region the areas of its fragments add up to the area of the region
\* inside the grid's coverage, which is the region's own area when the grid covers it
C7_AreaConserved ==
    HasOverlay =>
        \A i \in 1..Len(regions_df.rows) :
            LET r == regions_df.rows[i]
                total == SumOver(FragmentsOf(r.name), FragmentAreas)
            IN /\ total = CoveredArea(r.geometry)
               /\ Within(r.geometry, GridCoverage) => total = Area(r.geometry)

\* C7 witness: one region lies inside the grid and spans several cells, another is
\* cut by the grid's edge
C7_Witness ==
    /\ HasOverlay
    /\ \E i, j \in 1..Len(regions_df.rows) :
          LET r == regions_df.rows[i]
              q == regions_df.rows[j]
          IN /\ Cardinality(FragmentsOf(r.name)) >= 2
             /\ SumOver(FragmentsOf(r.name), FragmentAreas) = Area(r.geometry)
             /\ FragmentsOf(q.name) # {}
             /\ SumOver(FragmentsOf(q.name), FragmentAreas) < Area(q.geometry)

\* the interiors of two rectangles meet
OverlapsWithArea(p, q) ==
    /\ Max({MinX(p), MinX(q)}) < Min({MaxX(p), MaxX(q)})
    /\ Max({MinY(p), MinY(q)}) < Min({MaxY(p), MaxY(q)})

\* the two rectangles share boundary points only
TouchesOnly(p, q) ==
    /\ ~OverlapsWithArea(p, q)
    /\ Max({MinX(p), MinX(q)}) <= Min({MaxX(p), MaxX(q)})
    /\ Max({MinY(p), MinY(q)}) <= Min({MaxY(p), MaxY(q)})

\* C8: the overlay holds exactly one fragment for every (cell, region) pair whose
\* intersection has non-zero area and none for any other pair (touching pairs
\* included); every fragment has non-zero area and lies within its parent cell and
\* within its parent region
C8_OneFragmentPerOverlap ==
    HasOverlay =>
        /\ \A c \in 1..Len(grid_df.rows), i \in 1..Len(regions_df.rows) :
              LET cell == grid_df.rows[c]
                  r == regions_df.rows[i]
                  frags == {k \in 1..Len(overlay) :
                              /\ overlay[k].y = cell.y /\ overlay[k].x = cell.x
                              /\ overlay[k].name = r.name}
              IN /\ Cardinality(frags) = IF OverlapsWithArea(cell.geometry, r.geometry) THEN 1 ELSE 0
                 /\ \A k \in frags :
                       /\ FragmentAreas[k] > 0
                       /\ Within(overlay[k].geometry, cell.geometry)
                       /\ Within(overlay[k].geometry, r.geometry)
        /\ \A k \in 1..Len(overlay) :
              /\ \E c \in 1..Len(grid_df.rows) :
                    grid_df.rows[c].y = overlay[k].y /\ grid_df.rows[c].x = overlay[k].x
              /\ overlay[k].name \in RegionNames

\* C8 witness: a region overlaps some cells, touches another cell along an edge and
\* a third only at a corner, and the overlay holds fragments
C8_Witness ==
    /\ HasOverlay
    /\ Len(overlay) >= 2
    /\ \E i \in 1..Len(regions_df.rows), c1, c2 \in 1..Len(grid_df.rows) :
          LET g == regions_df.rows[i].geometry
              edge == Intersection(grid_df.rows[c1].geometry, g)
              corner == Intersection(grid_df.rows[c2].geometry, g)
          IN /\ TouchesOnly(grid_df.rows[c1].geometry, g) /\ edge.type = "LineString"
             /\ TouchesOnly(grid_df.rows[c2].geometry, g) /\ corner.type = "Point"
             /\ FragmentsOf(regions_df.rows[i].name) # {}

\* the shapes of a direct call's arguments
CallN == data_arg.shape[1]

CallRows == data_arg.shape[2]

CallCols == data_arg.shape[3]

CallM == weights_arg.shape[3]

SameFlatSize == CallRows * CallCols = weights_arg.shape[1] * weights_arg.shape[2]

SameGrid == CallRows = weights_arg.shape[1] /\ CallCols = weights_arg.shape[2]

\* sum over all cells (i, j) of data[t, i, j] * weights[i, j, r]
WeightedSum(t, r) ==
    LET cells == (1..CallRows) \X (1..CallCols)
    IN RSumOver(cells, [cell \in cells |->
                          RMul(At(data_arg, <<t, cell[1], cell[2]>>),
                               CooAt(weights_arg, <<cell[1], cell[2], r>>))])

\* C2: on data of shape (n, rows, columns) and weights of shape (rows, columns, m)
\* the regridder returns an array of shape (n, m) whose entry [t, r] is the sum over
\* all cells of data[t, i, j] * weights[i, j, r]; whenever the assertion on the
\* flattened sizes passes, no later assertion fails and the shape is (n, m)
C2_RegridIsWeightedSum ==
    regridded # None =>
        /\ SameFlatSize =>
              /\ ~IsError(regridded)
              /\ regridded.kind = "ndarray"
              /\ regridded.shape = <<CallN, CallM>>
              /\ Len(regridded.flat) = CallN * CallM
        /\ SameGrid =>
              \A t \in 1..CallN, r \in 1..CallM :
                  REq(At(regridded, <<t, r>>), WeightedSum(t, r))

\* C2 witness: a call on a 2x2 grid with two time steps and two regions whose result
\* holds different values
C2_Witness ==
    /\ regridded # None
    /\ SameGrid
    /\ CallRows = 2 /\ CallCols = 2 /\ CallN = 2 /\ CallM = 2
    /\ ~IsError(regridded)
    /\ \E t1, t2 \in 1..CallN, r1, r2 \in 1..CallM :
          /\ ~REq(At(regridded, <<t1, r1>>), At(regridded, <<t2, r2>>))
          /\ ~RIsZero(At(regridded, <<t1, r1>>))

\* C4: when the flattened spatial size of the data differs from that of the weights,
\* the regridder raises and returns no array
C4_SizeMismatchRaises ==
    (regridded # None /\ ~SameFlatSize) => regridded = AssertionError

\* C4 witness: a call whose data has more cells than the weights was made and raised
C4_Witness ==
    /\ regridded = AssertionError
    /\ CallRows * CallCols > weights_arg.shape[1] * weights_arg.shape[2]

\* the weight the Weight Matrix holds for the cell with centre (yc, xc) and region
\* `name`: 0 when one of the labels is not among the matrix's coordinates
WeightOf(yc, xc, name) ==
    LET c == weights_sparse.coords
    IN IF yc \in Range(c.y) /\ xc \in Range(c.x) /\ name \in Range(c.name)
       THEN CooAt(weights_sparse.data,
                  <<IndexOf(c.y, yc), IndexOf(c.x, xc), IndexOf(c.name, name)>>)
       ELSE RZero

\* the cells of the dataset's grid, by centre (y, x)
GridCells == Range(ds.y) \X Range(ds.x)

\* sum of the Weight Matrix's column of region `name` over the whole grid
ColumnSum(name) == RSumOver(GridCells, [cell \in GridCells |-> WeightOf(cell[1], cell[2], name)])

\* the regridded value of region `name` at time step t
RegriddedOf(t, name) == At(var_regridded.data, <<t, IndexOf(var_regridded.name, name)>>)

\* C6: in the 4x4 scenario each of the 8 cells of the left half has weight 1/8 for
\* "left" and 0 for "right", and symmetrically; each column of the Weight Matrix sums
\* to 1; data with the same value v in every cell regrids to v for both regions at
\* every time step
C6_EndToEndHalves ==
    /\ HasWeights =>
          /\ \A cell \in GridCells :
                LET mine == IF cell[2] < 4 THEN "left" ELSE "right"
                    other == IF cell[2] < 4 THEN "right" ELSE "left"
                IN /\ REq(WeightOf(cell[1], cell[2], mine), Rat(1, 8))
                   /\ RIsZero(WeightOf(cell[1], cell[2], other))
          /\ Cardinality({cell \in GridCells : cell[2] < 4}) = 8
          /\ Cardinality(GridCells) = 16
          /\ weights_sparse.data.shape = <<4, 4, 2>>
          /\ \A name \in {"left", "right"} : REq(ColumnSum(name), One)
    /\ pc = "done" =>
          /\ Range(var_regridded.name) = {"left", "right"}
          /\ var_regridded.data.shape = <<var_data.shape[1], 2>>
          /\ \A t \in 1..var_data.shape[1], name \in {"left", "right"} :
                REq(RegriddedOf(t, name), var_data.flat[1])

\* C6 witness: the scenario ran to the end on two time steps of the value 10
C6_Witness ==
    /\ pc = "done"
    /\ var_data.shape = <<2, 4, 4>>
    /\ \A k \in 1..Len(var_data.flat) : var_data.flat[k] = Rat(10, 1)
    /\ REq(RegriddedOf(2, "right"), Rat(10, 1))
    /\ REq(WeightOf(1, 7, "right"), Rat(1, 8))

\* the grid has no cell whose interior meets geometry g
OutsideCoverage(g) == \A c \in 1..Len(grid_df.rows) : ~OverlapsWithArea(grid_df.rows[c].geometry, g)

\* C3 (as claimed): a region entirely outside the grid's coverage does not make the
\* run fail, has no Weight Entries, has an all-zero column in the Weight Matrix and
\* has an entry in the regridded output that is 0 at every time step
C3_UncoveredRegionYieldsZero ==
    HasOverlay =>
        \A i \in 1..Len(regions_df.rows) :
            LET name == regions_df.rows[i].name
            IN OutsideCoverage(regions_df.rows[i].geometry) =>
                  /\ pc \notin {"error_unstack", "error_regrid"}
                  /\ HasEntries => EntriesOf(name) = {}
                  /\ HasWeights =>
                        /\ name \in Range(weights_sparse.coords.name)
                        /\ \A cell \in GridCells : RIsZero(WeightOf(cell[1], cell[2], name))
                  /\ pc = "done" =>
                        /\ name \in Range(var_regridded.name)
                        /\ \A t \in 1..var_data.shape[1] : RIsZero(RegriddedOf(t, name))

\* the labels occurring in the Weight Entries, per index level
EntryLabels(level) == {df_weights[k].index[level] : k \in 1..Len(df_weights)}

\* C9 (as claimed): the Weight Matrix has the shape (rows, columns, regions) of the
\* full grid and the full region set
C9_FullGridShape ==
    HasWeights =>
        weights_sparse.data.shape = <<Len(ds.y), Len(ds.x), Len(regions_df.rows)>>

\* C9 (what the code assembles): the Weight Matrix has the shape (R, C, M), R, C and M
\* counting the grid rows, grid columns and region names that occur in at least one
\* Weight Entry (the full grid and region set when every one of them occurs); it
\* holds weight(cell, region) at the position of the labels of every Weight Entry and
\* 0 at every other position; collapsed to (R x C, M), each value lies at the
\* row-major flat index of its own cell
C9_WeightMatrixAssembly ==
    HasWeights =>
        LET c == weights_sparse.coords
            W == weights_sparse.data
            ny == Len(c.y)
            nx == Len(c.x)
            nm == Len(c.name)
            F == CooReshape(W, <<ny * nx, nm>>)
        IN /\ W.shape = <<ny, nx, nm>>
           /\ Range(c.y) = EntryLabels(1) /\ ny = Cardinality(EntryLabels(1))
           /\ Range(c.x) = EntryLabels(2) /\ nx = Cardinality(EntryLabels(2))
           /\ Range(c.name) = EntryLabels(3) /\ nm = Cardinality(EntryLabels(3))
           /\ Range(c.y) \subseteq Range(ds.y)
           /\ Range(c.x) \subseteq Range(ds.x)
           /\ Range(c.name) \subseteq RegionNames
           /\ (/\ EntryLabels(1) = Range(ds.y)
               /\ EntryLabels(2) = Range(ds.x)
               /\ EntryLabels(3) = RegionNames)
                 => W.shape = <<Len(ds.y), Len(ds.x), Len(regions_df.rows)>>
           /\ \A k \in 1..Len(df_weights) :
                 WeightOf(df_weights[k].index[1], df_weights[k].index[2], df_weights[k].index[3])
                    = df_weights[k].weights
           /\ \A idx \in Indices(W.shape) :
                 /\ (~\E k \in 1..Len(df_weights) :
                        df_weights[k].index = <<c.y[idx[1]], c.x[idx[2]], c.name[idx[3]]>>)
                       => RIsZero(CooAt(W, idx))
                 /\ CooAt(F, <<(idx[1] - 1) * nx + idx[2], idx[3]>>) = CooAt(W, idx)
           /\ F.shape = <<ny * nx, nm>>
           /\ Cardinality(DOMAIN F.nz) = Len(df_weights)

\* C9 witness: a Weight Matrix over fewer cells than the grid has, and a region that
\* has no column in it; the matrix holds several entries
C9_Witness ==
    /\ HasWeights
    /\ Len(regions_df.rows) = 2
    /\ Len(weights_sparse.coords.name) = 1
    /\ Len(weights_sparse.coords.y) * Len(weights_sparse.coords.x) < Len(ds.y) * Len(ds.x)
    /\ Len(df_weights) >= 2

\* C10 (as claimed): the regridded output's second axis is labelled by region name
\* and every input region occurs exactly once among the labels
C10_EveryRegionLabelled ==
    pc = "done" =>
        /\ Range(var_regridded.name) \subseteq RegionNames
        /\ var_regridded.data.shape[2] = Len(var_regridded.name)
        /\ \A i \in 1..Len(regions_df.rows) :
              Cardinality({p \in 1..Len(var_regridded.name) :
                              var_regridded.name[p] = regions_df.rows[i].name}) = 1

(***************************************************************************)
(* The grid polygons.                                                      *)
(***************************************************************************)
\* the corner of its bounding box that vertex i of ring g lies on
Corner(g, i) ==
    <<IF g[i][1] = MinX(g) THEN "x_lower" ELSE "x_upper",
      IF g[i][2] = MinY(g) THEN "y_lower" ELSE "y_upper">>

\* the corners of ring g in the order the ring lists them
CornerOrder(g) == [i \in 1..Len(g) |-> Corner(g, i)]

\* positions of the rows of grid_df that belong to the cell of centre (yc, xc)
RowsOfCell(yc, xc) ==
    {k \in 1..Len(grid_df.rows) : grid_df.rows[k].y = yc /\ grid_df.rows[k].x = xc}

\* C11: grid_df holds rows x columns polygons, exactly one per grid cell; each is a
\* rectangle of four distinct corners whose bounding box is the cell's
\* (x_lower, x_upper) x (y_lower, y_upper) bounds, and every polygon lists its
\* corners in the same order
C11_OnePolygonPerCell ==
    pc = "grid" =>
        /\ Len(grid_df.rows) = Len(ds.y) * Len(ds.x)
        /\ \A i \in 1..Len(ds.y), j \in 1..Len(ds.x) :
              /\ Cardinality(RowsOfCell(ds.y[i], ds.x[j])) = 1
              /\ LET g == grid_df.rows[CHOOSE k \in RowsOfCell(ds.y[i], ds.x[j]) : TRUE].geometry
                     xb == add_bounds(ds.x, j)
                     yb == add_bounds(ds.y, i)
                 IN /\ Len(g) = 4
                    /\ Cardinality(Range(g)) = 4
                    /\ <<MinX(g), MaxX(g)>> = xb
                    /\ <<MinY(g), MaxY(g)>> = yb
                    /\ Range(g) = {xb[1], xb[2]} \X {yb[1], yb[2]}
        /\ \A k, l \in 1..Len(grid_df.rows) :
              CornerOrder(grid_df.rows[k].geometry) = CornerOrder(grid_df.rows[l].geometry)

\* C11 witness: a grid of two rows and two columns has been polygonized
C11_Witness ==
    /\ pc = "grid"
    /\ Len(ds.y) = 2 /\ Len(ds.x) = 2
    /\ Len(grid_df.rows) = 4

\* bounds b of one axis are malformed: a bound is missing, or lower >= upper
Malformed(b) == Len(b) < 2 \/ b[1] >= b[2]

\* a polygon that is degenerate (no area)
Degenerate(p) == Area(p.exterior) = 0

\* a polygon that is inverted: its ring does not start at the lower-left corner
Inverted(p) == p.exterior[1] # <<MinX(p.exterior), MinY(p.exterior)>>

\* C12 (as claimed): bounds_to_poly called on malformed bounds (lower >= upper on an
\* axis, or a bound missing) fails with an error and returns no polygon; it never
\* returns a degenerate or an inverted polygon
C12_MalformedBoundsRejected ==
    pc = "poly_called" =>
        /\ (Malformed(x_bounds_arg) \/ Malformed(y_bounds_arg)) => IsError(poly)
        /\ ~IsError(poly) => (~Degenerate(poly) /\ ~Inverted(poly))

\* C13 (as claimed): bounds_to_poly called on a bounds array that does not hold
\* exactly 2 values, on either axis, fails with an error
C13_ArityRejected ==
    pc = "poly_called" =>
        ((Len(x_bounds_arg) # 2 \/ Len(y_bounds_arg) # 2) => IsError(poly))

(***************************************************************************)
(* The regridder's calls as tasks.                                         *)
(***************************************************************************)
\* C14: for every partition of the time axis into chunks and every interleaving of
\* the tasks' statements, the blocks concatenated along time are the array (or the
\* error) that one call on the whole (time, row, column) array gives
C14_ChunksEqualWhole ==
    pc = "tasks_done" => regridded = apply_weights_matmul_sparse(weights_arg, data_arg)

\* C14 witness: three chunks have been regridded and concatenated to an array whose
\* time steps differ
C14_Witness ==
    /\ pc = "tasks_done"
    /\ Len(chunks) = 3
    /\ ~IsError(regridded)
    /\ \E r \in 1..regridded.shape[2] :
          /\ ~REq(At(regridded, <<1, r>>), At(regridded, <<2, r>>))
          /\ ~REq(At(regridded, <<2, r>>), At(regridded, <<3, r>>))

\* the tasks that have returned
Returned == {t \in 1..Len(chunks) : tasks[t].pc = "returned"}

\* C15: whatever statements of whatever calls have run, the weights object and the
\* caller's data (the array and the chunks handed to the calls) are as constructed,
\* and two calls that were handed the same data have returned the same output
C15_InputsUnchanged ==
    pc \in {"tasks_running", "tasks_done"} =>
        /\ heap[WeightsRef] = weights_arg
        /\ heap[DataRef] = data_arg
        /\ \A t \in 1..Len(chunks) :
              heap[<<t, 0>>] = TimeSlice(data_arg, chunks[t][1], chunks[t][2])
        /\ \A t, u \in Returned : chunks[t] = chunks[u] => tasks[t].out = tasks[u].out

\* C15 witness: two calls on the same array have both returned, with a result that
\* is not all zero
C15_Witness ==
    /\ pc = "tasks_running"
    /\ Len(chunks) = 2
    /\ chunks[1] = chunks[2]
    /\ Returned = {1, 2}
    /\ \E k \in DOMAIN tasks[1].out.flat : ~RIsZero(tasks[1].out.flat[k])

BothInAreaCrs ==
    /\ grid_df.crs = crs_area
    /\ regions_df.crs = crs_area
    /\ \A k \in 1..Len(grid_df.rows) :
          LET j == IndexOf(ds.x, grid_df.rows[k].x)
              i == IndexOf(ds.y, grid_df.rows[k].y)
          IN grid_df.rows[k].geometry =
                GeomToCrs(Box(add_bounds(ds.x, j), add_bounds(ds.y, i)), lcc_wkt, crs_area)

\* C18: in the state the overlay is computed in, and from then on, the grid polygons
\* and the region polygons are both in the equal-area CRS, which is not the CRS
\* either set was made in
C18_OverlayInOneCrs ==
    /\ crs_area \notin {lcc_wkt, crs_orig}
    /\ (pc = "area" \/ HasOverlay) => BothInAreaCrs

\* C18 witness: the overlay has been computed and holds fragments of two regions
C18_Witness ==
    /\ pc = "overlay"
    /\ Len(overlay) >= 2
    /\ \E k, l \in 1..Len(overlay) : overlay[k].name # overlay[l].name

(***************************************************************************)
(* Dataset and cluster selection.                                          *)
(***************************************************************************)
\* the selection cell has run to its end, or has raised
SelectionRan == pc \in {"env_selected", "env_opened", "env_shutdown", "env_error"}

\* the cluster configure_cluster starts for a machine
ClusterOf(name) ==
    CASE name \in {"denali", "local"} -> "LocalCluster"
      [] name = "tallgrass" -> "SLURMCluster"
      [] name = "esip-qhub-gateway-v0.4" -> "ebd.start_dask_cluster"
      [] OTHER -> "a cluster for " \o name

\* C19 (as claimed): with SLURM_CLUSTER_NAME defined the dataset selected is
\* 'conus404-hourly-onprem' and the cluster is configured for the machine the
\* variable names; without it the dataset is 'conus404-hourly-cloud' and the cluster
\* that of 'esip-qhub-gateway-v0.4'; either way exactly one cluster and one client
\* are configured, and they are before the dataset is opened
C19_SelectionFollowsEnvironment ==
    SelectionRan =>
        /\ IF "SLURM_CLUSTER_NAME" \in DOMAIN environ
           THEN /\ dataset = "conus404-hourly-onprem"
                /\ machine = environ["SLURM_CLUSTER_NAME"]
           ELSE /\ dataset = "conus404-hourly-cloud"
                /\ machine = "esip-qhub-gateway-v0.4"
        /\ pc # "env_error"
        /\ cluster = ClusterOf(machine)
        /\ client = cluster
        /\ pc \in {"env_selected", "env_opened"} => started = <<cluster>>
        /\ opened # Unbound => pc \in {"env_opened", "env_shutdown"}

\* C20: when compute() has returned, its list is what the sequential map of myFunc over
\* myList gives, element for element and in the list's order, however many threads ran
\* the tasks and in whatever order they ended; and myFunc has been called on each
\* element once for every compute() so far.
C20_BagEqualsSequentialMap ==
    pc \in {"bag_done", "bag_closed"} =>
        /\ computed = SequentialMap(myList)
        /\ \A i \in DOMAIN calls : calls[i] = computes

\* two threads ended the tasks of three different elements out of list order, and
\* compute() has returned for the second time
C20_Witness ==
    /\ pc = "bag_done"
    /\ nthreads >= 2
    /\ Len(myList) = 3
    /\ \A i, j \in DOMAIN myList : i # j => myList[i] # myList[j]
    /\ finished # <<1, 2, 3>>
    /\ computes = 2
    /\ computed = SequentialMap(myList)

\* C21: a run of the helper that succeeds selects the profile named by AWS_PROFILE and
\* the endpoint named by AWS_S3_ENDPOINT as they were before the run, 'osn-renci' and
\* 'https://renc.osn.xsede.org' where they were unset, and leaves AWS_ACCESS_KEY_ID and
\* AWS_SECRET_ACCESS_KEY equal to that profile's entries in the credentials file,
\* AWS_PROFILE and AWS_DEFAULT_PROFILE equal to its name, AWS_S3_ENDPOINT to the endpoint.
C21_CredentialsFollowProfile ==
    [][pc' = "aws_done" =>
        LET selected == IF "AWS_PROFILE" \in DOMAIN environ
                        THEN environ["AWS_PROFILE"]
                        ELSE "osn-renci"
            endpoint == IF "AWS_S3_ENDPOINT" \in DOMAIN environ
                        THEN environ["AWS_S3_ENDPOINT"]
                        ELSE "https://renc.osn.xsede.org"
        IN  /\ selected \in DOMAIN awsconfig
            /\ Options \subseteq DOMAIN awsconfig[selected]
            /\ environ'["AWS_ACCESS_KEY_ID"] = awsconfig[selected]["aws_access_key_id"]
            /\ environ'["AWS_SECRET_ACCESS_KEY"] = awsconfig[selected]["aws_secret_access_key"]
            /\ environ'["AWS_PROFILE"] = selected
            /\ environ'["AWS_DEFAULT_PROFILE"] = selected
            /\ environ'["AWS_S3_ENDPOINT"] = endpoint]_vars

\* the helper has succeeded with the profile the caller set and the default endpoint
C21_Witness ==
    /\ pc = "aws_done"
    /\ environ["AWS_PROFILE"] = "esip-qhub"
    /\ environ["AWS_ACCESS_KEY_ID"] = OptionValue("esip-qhub", "aws_access_key_id")
    /\ environ["AWS_S3_ENDPOINT"] = "https://renc.osn.xsede.org"
    /\ "osn-renci" \in DOMAIN awsconfig

\* C22: the Tallgrass helper run without SLURM_JOB_ACCOUNT ends in the re-raised
\* KeyError with the error logged and no cluster and no client created; run with it,
\* it ends with a SLURM cluster whose project is that account and a client connected
\* to that cluster.
C22_AccountOrKeyError ==
    /\ pc = "tallgrass_raised" =>
          /\ "SLURM_JOB_ACCOUNT" \notin DOMAIN environ
          /\ Len(log) > 0
          /\ log[Len(log)] = NoAccountMessage
          /\ cluster = None
          /\ client = None
          /\ started = <<>>
    /\ pc = "tallgrass_ready" =>
          /\ "SLURM_JOB_ACCOUNT" \in DOMAIN environ
          /\ cluster = SLURMCluster(environ["SLURM_JOB_ACCOUNT"])
          /\ client = Client(cluster)
          /\ started = <<cluster>>
    /\ pc \in {"aws_start", "aws_profile_set", "aws_done", "aws_logged"} =>
          /\ cluster = None
          /\ client = None

\* the helper has raised after the AWS helper succeeded
C22_WitnessRaised ==
    /\ pc = "tallgrass_raised"
    /\ "AWS_ACCESS_KEY_ID" \in DOMAIN environ
    /\ "AWS_SECRET_ACCESS_KEY" \in DOMAIN environ
    /\ log = <<NoAccountMessage>>

\* the chunks of a variable of the output store that hold a value of the feature at
\* position f
ChunksOfFeature(name, f) ==
    {key \in DOMAIN outfile[name].blocks :
        \E idx \in DOMAIN outfile[name].blocks[key] : idx[2] = f}

HoursFrom(start) ==
    {i \in 1 .. Len(ds_subset.time) :
        ds_subset.time[i] >= start /\ ds_subset.time[i] < start + 24}

\* the days, counted from day 0, that hold an hourly time of the subset
DaysOfSubset == {ds_subset.time[i] \div 24 : i \in 1 .. Len(ds_subset.time)}

\* C24: the daily dataset has one value for each day that holds hourly times, labelled
\* with the day's noon, equal for both variables to the sum of the hourly values of
\* that day divided by their number; and each hourly value falls in the 24 hours of
\* exactly one daily value.
C24_DailyMeans ==
    pc = "daily_done" =>
        /\ Len(ds_subset_daily.time) = Cardinality(DaysOfSubset)
        /\ {ds_subset_daily.time[k] : k \in 1 .. Len(ds_subset_daily.time)}
               = {24 * day + 12 : day \in DaysOfSubset}
        /\ \A k \in 1 .. Len(ds_subset_daily.time) :
              LET hours == HoursFrom(ds_subset_daily.time[k] - 12)
              IN  /\ hours # {}
                  /\ REq(ds_subset_daily.T2[k],
                         Rat(SumOver(hours, [i \in hours |-> ds_subset.T2[i]]), Cardinality(hours)))
                  /\ REq(ds_subset_daily.U10[k],
                         Rat(SumOver(hours, [i \in hours |-> ds_subset.U10[i]]), Cardinality(hours)))
        /\ \A i \in 1 .. Len(ds_subset.time) :
              Cardinality({k \in 1 .. Len(ds_subset_daily.time) :
                              i \in HoursFrom(ds_subset_daily.time[k] - 12)}) = 1

\* two daily means have been taken, the first over a day whose first hours are missing
C24_Witness ==
    /\ pc = "daily_done"
    /\ Len(ds_subset_daily.time) = 2
    /\ ds_subset.time[1] = 30
    /\ Len(ds_subset.time) = 42
    /\ ds_subset_daily.time = <<36, 60>>
    /\ ~REq(ds_subset_daily.T2[1], ds_subset_daily.T2[2])

\* C25 (as claimed): when the loop is over, time_vars holds the names of exactly the
\* data variables that have a dimension named time and hold no time bounds, wherever
\* in the variable's dimensions the time dimension stands
C25_TimeVarsExact ==
    pc = "explorer_done" =>
        {time_vars[k] : k \in 1 .. Len(time_vars)} =
            {data_vars[i].name : i \in {j \in 1 .. Len(data_vars) :
                /\ \E d \in 1 .. Len(data_vars[j].dims) : data_vars[j].dims[d] = <<"time">>
                /\ data_vars[j].bounds_of # "time"}}

\* C25 (what the code does): a variable is in time_vars exactly when its first dimension
\* is the time dimension and its name has no 'bounds' in it
C25_FirstDimensionOnly ==
    pc = "explorer_done" =>
        {time_vars[k] : k \in 1 .. Len(time_vars)} =
            {data_vars[i].name : i \in {j \in 1 .. Len(data_vars) :
                /\ Len(data_vars[j].dims) > 0
                /\ data_vars[j].dims[1] = <<"time">>
                /\ ~Contains(data_vars[j].name, <<"bounds">>)}}

\* the loop is over and has left out a variable whose time dimension comes last
C25_Witness ==
    /\ pc = "explorer_done"
    /\ \E i \in 1 .. Len(data_vars) :
          /\ data_vars[i].name = <<"T2">>
          /\ data_vars[i].dims = << <<"y">>, <<"x">>, <<"time">> >>
    /\ <<"T2">> \notin {time_vars[k] : k \in 1 .. Len(time_vars)}

\* the Weight Entries the cells after the subsetting give when they are run on the
\* whole grid: (y, x, name, weight) for every fragment
FullGridEntries ==
    LET ov == Overlay(to_crs(GridPolygons(WideCoords), crs_area), regions_df)
        fraction == GridCellFraction(ov)
    IN  {<<ov[k].y, ov[k].x, ov[k].name, fraction[k]>> : k \in 1..Len(ov)}

SubsetGridEntries ==
    {<<df_weights[k].index[1], df_weights[k].index[2], df_weights[k].index[3],
       df_weights[k].weights>> : k \in 1..Len(df_weights)}

SameEntry(a, b) == a[1] = b[1] /\ a[2] = b[2] /\ a[3] = b[3] /\ REq(a[4], b[4])

\* C26 (as claimed): the Weight Entries built from the subsetted grid are those the
\* whole grid gives: the same cells for every region, with equal weights
C26_SubsetOnlyOptimises ==
    HasEntries =>
        /\ \A a \in FullGridEntries : \E b \in SubsetGridEntries : SameEntry(a, b)
        /\ \A b \in SubsetGridEntries : \E a \in FullGridEntries : SameEntry(a, b)

\* the weights are built, and a cell of the whole grid that overlaps a region is not
\* in the subsetted grid
C26_Witness ==
    /\ pc = "weights"
    /\ \E a \in FullGridEntries : a[2] \notin Range(ds.x)

\* C27 (as claimed): for every name the weights of the Weight Entries of that name sum
\* to 1, each being the fragment's area over the area of all fragments of the name,
\* whichever of the regions of that name they come from; and no (y, x, name) label
\* occurs twice in the index of the Weight Entries
C27_NormalisedPerName ==
    HasEntries =>
        /\ \A name \in RegionNames :
              EntriesOf(name) # {} =>
                  /\ REq(RSumOver(EntriesOf(name),
                                  [k \in 1..Len(df_weights) |-> df_weights[k].weights]), One)
                  /\ \A k \in EntriesOf(name) :
                        REq(df_weights[k].weights,
                            Rat(FragmentAreas[k], SumOver(FragmentsOf(name), FragmentAreas)))
        /\ \A i, j \in 1..Len(df_weights) :
              i # j => df_weights[i].index # df_weights[j].index

\* two regions of one name overlap the same cell and the unstacking has failed
C27_Witness ==
    /\ pc = "error_unstack"
    /\ Len(regions_df.rows) = 2
    /\ regions_df.rows[1].name = regions_df.rows[2].name
    /\ \E i, j \in 1..Len(df_weights) : i # j /\ df_weights[i].index = df_weights[j].index

\* a <= b for two fractions of positive denominators
RLe(a, b) == a[1] * b[2] <= b[1] * a[2]

\* the values of the variable at time step t in the cells that have a Weight Entry of
\* region `name`
ValuesOf(t, name) ==
    {At(var_data, <<t, IndexOf(ds.y, df_weights[k].index[1]),
                       IndexOf(ds.x, df_weights[k].index[2])>>) : k \in EntriesOf(name)}

\* C28: every weight is greater than 0 and at most 1, and the regridded value of every
\* region of the output at every time step is no less than the least and no more than
\* the greatest value of the variable in the cells that have a fragment in the region
C28_WeightedMeanWithinRange ==
    /\ HasEntries =>
          \A k \in 1..Len(df_weights) :
              /\ df_weights[k].weights[1] > 0
              /\ df_weights[k].weights[2] > 0
              /\ df_weights[k].weights[1] <= df_weights[k].weights[2]
    /\ pc = "done" =>
          \A n \in 1..Len(var_regridded.name) : \A t \in 1..var_data.shape[1] :
              LET name == var_regridded.name[n]
                  value == RegriddedOf(t, name)
              IN  /\ ValuesOf(t, name) # {}
                  /\ \E low \in ValuesOf(t, name) : RLe(low, value)
                  /\ \E high \in ValuesOf(t, name) : RLe(value, high)

\* a region spread unevenly over cells of different values has been regridded to a value
\* strictly between the least and the greatest of them
C28_Witness ==
    /\ pc = "done"
    /\ \E n \in 1..Len(var_regridded.name) :
          LET name == var_regridded.name[n]
              value == RegriddedOf(1, name)
          IN  /\ Cardinality(ValuesOf(1, name)) >= 3
              /\ \E k1, k2 \in EntriesOf(name) : ~REq(df_weights[k1].weights, df_weights[k2].weights)
              /\ \E low \in ValuesOf(1, name) : RLe(low, value) /\ ~REq(low, value)
              /\ \E high \in ValuesOf(1, name) : RLe(value, high) /\ ~REq(value, high)

\* C29 (as claimed): once the selection cell has run, a machine among 'denali',
\* 'tallgrass', 'local' and 'esip-qhub-gateway-v0.4' has a client and a cluster, and any
\* other machine has ended in an error with no cluster started and the notebook's client
\* and cluster undefined
C29_PairOrNothing ==
    SelectionRan =>
        IF machine \in {"denali", "tallgrass", "local", "esip-qhub-gateway-v0.4"}
        THEN /\ pc # "env_error"
             /\ client # Unbound
             /\ cluster # Unbound
        ELSE /\ pc = "env_error"
             /\ client = Unbound
             /\ cluster = Unbound
             /\ started = <<>>

\* the temporal notebook has failed on the machine 'local'
C29_Witness ==
    /\ pc = "env_error"
    /\ notebook = "temporal"
    /\ machine = "local"
    /\ client = Unbound
    /\ started = <<>>

====
